---------------------------- MODULE Spec2Model ----------------------------
(***************************************************************************)
(* A model of the scripting-language interpreter: the scanner              *)
(* (src/src/scanner.rs), the recursive-descent parser (src/src/parser.rs), *)
(* the expression evaluator (src/src/ast.rs) and the driver                *)
(* (src/src/main.rs).                                                      *)
(*                                                                         *)
(* A character is its Unicode code point; a Rust String is the sequence of *)
(* its characters, and its byte length and byte slices are computed from   *)
(* the UTF-8 encoding, as the scanner mixes character indices              *)
(* (chars().nth(i)) with byte indices (len(), &source[a..b]).              *)
(***************************************************************************)
EXTENDS Integers, Sequences, FiniteSets, TLC

VARIABLES
    pc,          \* where the driver stands
    scanner,     \* Scanner { source, tokens, start, current, line }
    scan_errors, \* scan_tokens' local `errors`
    parser,      \* Parser { tokens, current }
    stmts,       \* parse's local `stmts`
    parse_errors,\* parse's local `errors`
    result,      \* what the operation under way returned (or "panic")
    interp,      \* the persistent Interpreter state, with what it printed
    ip,          \* index of the next top-level statement interpret executes
    runs,        \* number of chunks run_prompt has handed to run
    input        \* what the caller (a test, the prompt) handed in

vars == <<pc, scanner, scan_errors, parser, stmts, parse_errors, result,
          interp, ip, runs, input>>

(***************************************************************************)
(* Bounds of the model.                                                    *)
(***************************************************************************)
MaxLen == 3        \* longest source text of the exhaustive scanner inputs
MaxToks == 3       \* longest token vector of the exhaustive parser inputs
MaxStmts == 3      \* most statements in a generated erroneous program
MaxRuns == 2       \* chunks run_prompt reads before the model stops
MaxLit == 2        \* largest number literal in the generated programs
MaxIter == 3       \* iterations of one loop before the model gives up
MaxDepth == 3      \* blocks nested inside one another, entered step by step

(***************************************************************************)
(* Characters and strings.                                                 *)
(***************************************************************************)
Ascii ==
    [c \in {"\n"} |-> 10] @@
    (" " :> 32) @@ ("!" :> 33) @@ ("\"" :> 34) @@ ("#" :> 35) @@
    ("$" :> 36) @@ ("%" :> 37) @@ ("&" :> 38) @@ ("'" :> 39) @@
    ("(" :> 40) @@ (")" :> 41) @@ ("*" :> 42) @@ ("+" :> 43) @@
    ("," :> 44) @@ ("-" :> 45) @@ ("." :> 46) @@ ("/" :> 47) @@
    ("0" :> 48) @@ ("1" :> 49) @@ ("2" :> 50) @@ ("3" :> 51) @@
    ("4" :> 52) @@ ("5" :> 53) @@ ("6" :> 54) @@ ("7" :> 55) @@
    ("8" :> 56) @@ ("9" :> 57) @@ (":" :> 58) @@ (";" :> 59) @@
    ("<" :> 60) @@ ("=" :> 61) @@ (">" :> 62) @@ ("?" :> 63) @@
    ("@" :> 64) @@ ("A" :> 65) @@ ("B" :> 66) @@ ("C" :> 67) @@
    ("D" :> 68) @@ ("E" :> 69) @@ ("F" :> 70) @@ ("G" :> 71) @@
    ("H" :> 72) @@ ("I" :> 73) @@ ("J" :> 74) @@ ("K" :> 75) @@
    ("L" :> 76) @@ ("M" :> 77) @@ ("N" :> 78) @@ ("O" :> 79) @@
    ("P" :> 80) @@ ("Q" :> 81) @@ ("R" :> 82) @@ ("S" :> 83) @@
    ("T" :> 84) @@ ("U" :> 85) @@ ("V" :> 86) @@ ("W" :> 87) @@
    ("X" :> 88) @@ ("Y" :> 89) @@ ("Z" :> 90) @@ ("[" :> 91) @@
    ("]" :> 93) @@ ("^" :> 94) @@ ("_" :> 95) @@
    ("a" :> 97) @@ ("b" :> 98) @@ ("c" :> 99) @@
    ("d" :> 100) @@ ("e" :> 101) @@ ("f" :> 102) @@ ("g" :> 103) @@
    ("h" :> 104) @@ ("i" :> 105) @@ ("j" :> 106) @@ ("k" :> 107) @@
    ("l" :> 108) @@ ("m" :> 109) @@ ("n" :> 110) @@ ("o" :> 111) @@
    ("p" :> 112) @@ ("q" :> 113) @@ ("r" :> 114) @@ ("s" :> 115) @@
    ("t" :> 116) @@ ("u" :> 117) @@ ("v" :> 118) @@ ("w" :> 119) @@
    ("x" :> 120) @@ ("y" :> 121) @@ ("z" :> 122) @@ ("{" :> 123) @@
    ("|" :> 124) @@ ("}" :> 125) @@ ("~" :> 126) @@
    \* three characters outside ASCII: U+00E9, U+0131 (its low byte is the
    \* byte of '1') and U+0141 (its low byte is the byte of 'A')
    ("e-acute" :> 233) @@ ("dotless-i" :> 305) @@ ("L-stroke" :> 321)

\* The String whose characters are named, one by one, in cs.
Str(cs) == [i \in 1..Len(cs) |-> Ascii[cs[i]]]

\* UTF-8: the number of bytes of a character (code points below U+0800).
Utf8Len(ch) == IF ch < 128 THEN 1 ELSE 2

Utf8Char(ch) ==
    IF ch < 128 THEN <<ch>> ELSE <<192 + (ch \div 64), 128 + (ch % 64)>>

RECURSIVE Utf8(_)
Utf8(s) == IF s = <<>> THEN <<>> ELSE Utf8Char(Head(s)) \o Utf8(Tail(s))

\* String::len(): the length in bytes.
ByteLen(s) == Len(Utf8(s))

\* whether byte index i of the bytes b is a character boundary
IsCharBoundary(b, i) ==
    \/ i = 0
    \/ i = Len(b)
    \/ /\ i < Len(b)
       /\ ~(b[i + 1] >= 128 /\ b[i + 1] < 192)

RECURSIVE Utf8Decode(_)
Utf8Decode(b) ==
    IF b = <<>> THEN <<>>
    ELSE IF b[1] < 128 THEN <<b[1]>> \o Utf8Decode(Tail(b))
    ELSE <<(b[1] - 192) * 64 + (b[2] - 128)>> \o Utf8Decode(Tail(Tail(b)))

\* &s[from..to]: a byte slice; Rust panics when an end is past the string,
\* the ends are out of order or an end is inside a character.
SliceOk(s, from, to) ==
    /\ from <= to
    /\ to <= ByteLen(s)
    /\ IsCharBoundary(Utf8(s), from)
    /\ IsCharBoundary(Utf8(s), to)

Slice(s, from, to) == Utf8Decode(SubSeq(Utf8(s), from + 1, to))

\* s.chars().nth(i): defined when i is below the number of characters.
HasChar(s, i) == i < Len(s)
CharAt(s, i) == s[i + 1]

(***************************************************************************)
(* Scanner (src/src/scanner.rs).                                           *)
(*                                                                         *)
(* A fallible scanner operation yields [kind, s, msg]: kind "ok" or "err"  *)
(* (the Result it returns) or "panic" (an unwrap on None, a byte slice off *)
(* a character boundary), with s the scanner as the operation left it.     *)
(***************************************************************************)
ScanOk(s) == [kind |-> "ok", s |-> s, msg |-> <<>>]
ScanErr(s, m) == [kind |-> "err", s |-> s, msg |-> m]
ScanPanic(s, m) == [kind |-> "panic", s |-> s, msg |-> m]

\* what peek yields where chars().nth(current).unwrap() panics
NoChar == -1

is_digit(ch) == (ch % 256) >= Ascii["0"] /\ (ch % 256) <= Ascii["9"]

is_alpha(ch) ==
    \/ (ch % 256) >= Ascii["a"] /\ (ch % 256) <= Ascii["z"]
    \/ (ch % 256) >= Ascii["A"] /\ (ch % 256) <= Ascii["Z"]
    \/ ch = Ascii["_"]

is_alpha_numeric(ch) == is_alpha(ch) \/ is_digit(ch)

keywords ==
    (Str(<<"a", "n", "d">>) :> "And") @@
    (Str(<<"c", "l", "a", "s", "s">>) :> "Class") @@
    (Str(<<"e", "l", "s", "e">>) :> "Else") @@
    (Str(<<"f", "a", "l", "s", "e">>) :> "False") @@
    (Str(<<"f", "o", "r">>) :> "For") @@
    (Str(<<"f", "u", "n">>) :> "Fun") @@
    (Str(<<"i", "f">>) :> "If") @@
    (Str(<<"n", "i", "l">>) :> "Nil") @@
    (Str(<<"o", "r">>) :> "Or") @@
    (Str(<<"p", "r", "i", "n", "t">>) :> "Print") @@
    (Str(<<"r", "e", "t", "u", "r", "n">>) :> "Return") @@
    (Str(<<"s", "u", "p", "e", "r">>) :> "Super") @@
    (Str(<<"t", "h", "i", "s">>) :> "This") @@
    (Str(<<"t", "r", "u", "e">>) :> "True") @@
    (Str(<<"v", "a", "r">>) :> "Var") @@
    (Str(<<"w", "h", "i", "l", "e">>) :> "While")

\* Scanner::new
NewScanner(source) ==
    [source |-> source, tokens |-> <<>>, start |-> 0, current |-> 0,
     line |-> 1]

is_at_end(s) == s.current >= ByteLen(s.source)

peek(s) ==
    IF is_at_end(s) THEN 0
    ELSE IF HasChar(s.source, s.current) THEN CharAt(s.source, s.current)
    ELSE NoChar

peek_next(s) ==
    IF s.current + 1 >= ByteLen(s.source) THEN 0
    ELSE IF HasChar(s.source, s.current + 1)
         THEN CharAt(s.source, s.current + 1)
    ELSE NoChar

\* advance, where chars().nth(current) is Some: the caller tests HasChar
advance(s) == [s EXCEPT !.current = @ + 1]

\* char_match: [kind, s, matched]
char_match(s, ch) ==
    IF is_at_end(s) THEN [kind |-> "ok", s |-> s, matched |-> FALSE]
    ELSE IF ~HasChar(s.source, s.current)
         THEN [kind |-> "panic", s |-> s, matched |-> FALSE]
    ELSE IF CharAt(s.source, s.current) # ch
         THEN [kind |-> "ok", s |-> s, matched |-> FALSE]
    ELSE [kind |-> "ok", s |-> advance(s), matched |-> TRUE]

None == [tag |-> "None"]

add_token_lit(s, token_type, literal) ==
    IF ~SliceOk(s.source, s.start, s.current)
    THEN ScanPanic(s, "byte slice")
    ELSE ScanOk([s EXCEPT !.tokens = Append(@,
            [token_type |-> token_type,
             lexeme |-> Slice(s.source, s.start, s.current),
             literal |-> literal,
             line_number |-> s.line])])

add_token(s, token_type) == add_token_lit(s, token_type, None)

\* the arms of scan_token that look one character ahead
two_char(s, ch, matched_type, single_type) ==
    LET m == char_match(s, ch)
    IN  IF m.kind = "panic" THEN ScanPanic(m.s, "char_match: unwrap on None")
        ELSE add_token(m.s, IF m.matched THEN matched_type ELSE single_type)

\* the loop of the '/' arm: consume a comment up to the end of the line
RECURSIVE skip_comment(_)
skip_comment(s) ==
    IF peek(s) = NoChar THEN ScanPanic(s, "peek: unwrap on None")
    ELSE IF peek(s) = Ascii["\n"] \/ is_at_end(s) THEN ScanOk(s)
    ELSE skip_comment(advance(s))

\* while pred(self.peek()) { self.advance(); }
RECURSIVE skip_digits(_)
skip_digits(s) ==
    IF peek(s) = NoChar THEN ScanPanic(s, "peek: unwrap on None")
    ELSE IF is_digit(peek(s)) THEN skip_digits(advance(s))
    ELSE ScanOk(s)

RECURSIVE skip_alpha_numeric(_)
skip_alpha_numeric(s) ==
    IF peek(s) = NoChar THEN ScanPanic(s, "peek: unwrap on None")
    ELSE IF is_alpha_numeric(peek(s)) THEN skip_alpha_numeric(advance(s))
    ELSE ScanOk(s)

identifier(s) ==
    LET r == skip_alpha_numeric(s)
    IN  IF r.kind # "ok" THEN r
        ELSE IF ~SliceOk(r.s.source, r.s.start, r.s.current)
             THEN ScanPanic(r.s, "byte slice")
        ELSE LET substring == Slice(r.s.source, r.s.start, r.s.current)
             IN  IF substring \in DOMAIN keywords
                 THEN add_token(r.s, keywords[substring])
                 ELSE add_token(r.s, "Identifier")

(***************************************************************************)
(* Numbers.  A number is the rational [num, den] in lowest terms with      *)
(* den > 0; the literals and results of the model are short enough that    *)
(* the f64 and f32 of the code hold them exactly.                          *)
(***************************************************************************)
RECURSIVE Gcd(_, _)
Gcd(a, b) == IF b = 0 THEN a ELSE Gcd(b, a % b)

Abs(a) == IF a < 0 THEN 0 - a ELSE a

Rat(n, d) ==
    LET g == Gcd(Abs(n), Abs(d))
        sgn == IF d < 0 THEN 0 - 1 ELSE 1
    IN  [num |-> sgn * (n \div g), den |-> sgn * (d \div g)]

Num(n) == [num |-> n, den |-> 1]

RECURSIVE Pow10(_)
Pow10(k) == IF k = 0 THEN 1 ELSE 10 * Pow10(k - 1)

RECURSIVE DigitsValue(_, _)
DigitsValue(ds, acc) ==
    IF ds = <<>> THEN acc
    ELSE DigitsValue(Tail(ds), 10 * acc + (Head(ds) - Ascii["0"]))

IsAsciiDigit(ch) == ch >= Ascii["0"] /\ ch <= Ascii["9"]

\* the position of the first '.' of s, or 0
RECURSIVE DotAt(_, _)
DotAt(s, i) ==
    IF i > Len(s) THEN 0
    ELSE IF s[i] = Ascii["."] THEN i
    ELSE DotAt(s, i + 1)

\* str::parse::<f64> on the texts the scanner's number() can hand it:
\* digits with at most one '.', and a digit on at least one side of it.
ParseF64Ok(sub) ==
    LET dot == DotAt(sub, 1)
    IN  /\ \A i \in 1..Len(sub) : IsAsciiDigit(sub[i]) \/ i = dot
        /\ \E i \in 1..Len(sub) : IsAsciiDigit(sub[i])

ParseF64(sub) ==
    LET dot == DotAt(sub, 1)
        whole == IF dot = 0 THEN sub ELSE SubSeq(sub, 1, dot - 1)
        frac == IF dot = 0 THEN <<>> ELSE SubSeq(sub, dot + 1, Len(sub))
    IN  Rat(DigitsValue(whole, 0) * Pow10(Len(frac)) + DigitsValue(frac, 0),
            Pow10(Len(frac)))

number(s) ==
    LET r1 == skip_digits(s)
    IN  IF r1.kind # "ok" THEN r1
        ELSE IF peek(r1.s) = Ascii["."] /\ peek_next(r1.s) = NoChar
             THEN ScanPanic(r1.s, "peek_next: unwrap on None")
        ELSE LET r2 == IF peek(r1.s) = Ascii["."] /\ is_digit(peek_next(r1.s))
                       THEN skip_digits(advance(r1.s))
                       ELSE r1
             IN  IF r2.kind # "ok" THEN r2
                 ELSE IF ~SliceOk(r2.s.source, r2.s.start, r2.s.current)
                      THEN ScanPanic(r2.s, "byte slice")
                 ELSE LET substring ==
                              Slice(r2.s.source, r2.s.start, r2.s.current)
                      IN  IF ParseF64Ok(substring)
                          THEN add_token_lit(r2.s, "Number",
                                   [tag |-> "FloatValue",
                                    value |-> ParseF64(substring)])
                          ELSE ScanErr(r2.s, <<"Could not parse", substring>>)

\* the loop of string(): up to the closing quote or the end of the input
RECURSIVE skip_string(_)
skip_string(s) ==
    IF peek(s) = NoChar THEN ScanPanic(s, "peek: unwrap on None")
    ELSE IF peek(s) # Ascii["\""] /\ ~is_at_end(s)
         THEN skip_string(advance(
                  IF peek(s) = Ascii["\n"] THEN [s EXCEPT !.line = @ + 1]
                  ELSE s))
    ELSE ScanOk(s)

string(s) ==
    LET r == skip_string(s)
    IN  IF r.kind # "ok" THEN r
        ELSE IF is_at_end(r.s) THEN ScanErr(r.s, <<"Unterminated string">>)
        ELSE IF ~HasChar(r.s.source, r.s.current)
             THEN ScanPanic(r.s, "advance: unwrap on None")
        ELSE LET s2 == advance(r.s)
             IN  IF ~SliceOk(s2.source, s2.start + 1, s2.current - 1)
                 THEN ScanPanic(s2, "byte slice")
                 ELSE add_token_lit(s2, "String",
                          [tag |-> "StringValue",
                           text |-> Slice(s2.source, s2.start + 1,
                                          s2.current - 1)])

SingleCharTokens ==
    (Ascii["("] :> "LeftParen") @@ (Ascii[")"] :> "RightParen") @@
    (Ascii["{"] :> "LeftBrace") @@ (Ascii["}"] :> "RightBrace") @@
    (Ascii[","] :> "Comma") @@ (Ascii["."] :> "Dot") @@
    (Ascii["-"] :> "Minus") @@ (Ascii["+"] :> "Plus") @@
    (Ascii["%"] :> "Percent") @@ (Ascii[";"] :> "Semicolon") @@
    (Ascii["*"] :> "Star")

\* the last arm of scan_token's match
scan_other(s, c) ==
    IF is_digit(c) THEN number(s)
    ELSE IF is_alpha(c) THEN identifier(s)
    ELSE ScanErr(s, <<"Unrecognized char at line", s.line, c>>)

scan_token(s0) ==
    IF ~HasChar(s0.source, s0.current)
    THEN ScanPanic(s0, "advance: unwrap on None")
    ELSE
      LET c == CharAt(s0.source, s0.current)
          s == advance(s0)
      IN  IF c \in DOMAIN SingleCharTokens
            THEN add_token(s, SingleCharTokens[c])
          ELSE IF c = Ascii["!"] THEN two_char(s, Ascii["="], "BangEqual", "Bang")
          ELSE IF c = Ascii["="] THEN two_char(s, Ascii["="], "EqualEqual", "Equal")
          ELSE IF c = Ascii["<"] THEN two_char(s, Ascii["="], "LessEqual", "Less")
          ELSE IF c = Ascii[">"]
            THEN two_char(s, Ascii["="], "GreaterEqual", "Greater")
          ELSE IF c = Ascii["/"]
            THEN LET m == char_match(s, Ascii["/"])
                 IN  IF m.kind = "panic"
                       THEN ScanPanic(m.s, "char_match: unwrap on None")
                     ELSE IF m.matched THEN skip_comment(m.s)
                     ELSE add_token(m.s, "Slash")
          ELSE IF c \in {Ascii[" "], 13, 9} THEN ScanOk(s)
          ELSE IF c = Ascii["\n"] THEN ScanOk([s EXCEPT !.line = @ + 1])
          ELSE IF c = Ascii["\""] THEN string(s)
          ELSE scan_other(s, c)

EofToken(line) ==
    [token_type |-> "Eof", lexeme |-> <<>>, literal |-> None,
     line_number |-> line]

\* what scan_tokens returns: Ok(()) or Err(joined), each message followed
\* by a newline
ScanResult(errors) ==
    IF Len(errors) > 0 THEN [kind |-> "err", msgs |-> errors]
    ELSE [kind |-> "ok", msgs |-> <<>>]

(***************************************************************************)
(* Runtime values and expression nodes (src/src/ast.rs).                   *)
(***************************************************************************)
NumberValue(n) == [kind |-> "Number", n |-> n]
StringValue(s) == [kind |-> "StringValue", s |-> s]
TrueValue == [kind |-> "True"]
FalseValue == [kind |-> "False"]
NilValue == [kind |-> "Nil"]

\* unwrap_as_f32 and unwrap_as_string panic on any other payload
CanUnwrapAsF32(literal) == literal.tag \in {"IntValue", "FloatValue"}

unwrap_as_f32(literal) ==
    IF literal.tag = "IntValue" THEN Num(literal.int) ELSE literal.value

CanUnwrapAsString(literal) ==
    literal.tag \in {"StringValue", "IdentifierValue"}

unwrap_as_string(literal) == literal.text

\* LiteralValue::from_token panics on every token type outside its match,
\* and where the payload cannot be unwrapped
FromTokenOk(token) ==
    \/ token.token_type = "Number" /\ CanUnwrapAsF32(token.literal)
    \/ token.token_type = "String" /\ CanUnwrapAsString(token.literal)
    \/ token.token_type \in {"False", "True", "Nil"}

from_token(token) ==
    CASE token.token_type = "Number" ->
             NumberValue(unwrap_as_f32(token.literal))
      [] token.token_type = "String" ->
             StringValue(unwrap_as_string(token.literal))
      [] token.token_type = "False" -> FalseValue
      [] token.token_type = "True" -> TrueValue
      [] token.token_type = "Nil" -> NilValue

Literal(value) == [type |-> "Literal", value |-> value]
\* a parenthesised expression kept without a node of its own
Grouping_dropped(expression) == expression

Grouping(expression) == [type |-> "Grouping", expression |-> expression]
Variable(name) == [type |-> "Variable", name |-> name]
Unary(operator, right) ==
    [type |-> "Unary", operator |-> operator, right |-> right]
Binary(left, operator, right) ==
    [type |-> "Binary", left |-> left, operator |-> operator,
     right |-> right]
Logical(left, operator, right) ==
    [type |-> "Logical", left |-> left, operator |-> operator,
     right |-> right]
Assign(name, value) == [type |-> "Assign", name |-> name, value |-> value]

(***************************************************************************)
(* Statement nodes (src/src/stmt.rs).                                      *)
(***************************************************************************)
ExpressionStmt(expression) ==
    [type |-> "Expression", expression |-> expression]
PrintStmt(expression) == [type |-> "Print", expression |-> expression]
VarStmt(name, initializer) ==
    [type |-> "Var", name |-> name, initializer |-> initializer]
BlockStmt(statements) == [type |-> "Block", statements |-> statements]
IfStmt(predicate, then, els) ==
    [type |-> "IfStmt", predicate |-> predicate, then |-> then, els |-> els]
WhileStmt(condition, body) ==
    [type |-> "WhileStmt", condition |-> condition, body |-> body]
NoStmt == [type |-> "None"]

(***************************************************************************)
(* Parser (src/src/parser.rs).  The parser is its token vector and the     *)
(* cursor `current`; a parsing operation yields [kind, val, cur, msg]:     *)
(* kind "ok" with the node val, "err" with the message msg, or "panic"     *)
(* (an index past the token vector, LiteralValue::from_token), and cur the *)
(* cursor as the operation left it.                                        *)
(***************************************************************************)
POk(val, cur) == [kind |-> "ok", val |-> val, cur |-> cur, msg |-> ""]
PErr(msg, cur) == [kind |-> "err", val |-> NoStmt, cur |-> cur, msg |-> msg]
PPanic(msg, cur) ==
    [kind |-> "panic", val |-> NoStmt, cur |-> cur, msg |-> msg]

\* self.tokens[self.current] is in the vector
InRange(toks, cur) == cur < Len(toks)

parser_peek(toks, cur) == toks[cur + 1]

parser_previous(toks, cur) == toks[cur]

parser_is_at_end(toks, cur) == parser_peek(toks, cur).token_type = "Eof"

\* the cursor after advance()
parser_advance(toks, cur) ==
    IF ~parser_is_at_end(toks, cur) THEN cur + 1 ELSE cur

check(toks, cur, token_type) == parser_peek(toks, cur).token_type = token_type

\* match_tokens (and match_token, with one type): [kind, matched, cur]
match_tokens(toks, cur, token_types) ==
    IF ~InRange(toks, cur)
    THEN [kind |-> "panic", matched |-> FALSE, cur |-> cur]
    ELSE IF parser_is_at_end(toks, cur)
    THEN [kind |-> "ok", matched |-> FALSE, cur |-> cur]
    ELSE IF parser_peek(toks, cur).token_type \in token_types
    THEN [kind |-> "ok", matched |-> TRUE, cur |-> parser_advance(toks, cur)]
    ELSE [kind |-> "ok", matched |-> FALSE, cur |-> cur]

match_token(toks, cur, token_type) == match_tokens(toks, cur, {token_type})

consume(toks, cur, token_type, msg) ==
    IF ~InRange(toks, cur) THEN PPanic("index out of bounds", cur)
    ELSE IF parser_peek(toks, cur).token_type = token_type
    THEN POk(parser_peek(toks, cur), parser_advance(toks, cur))
    ELSE PErr(msg, cur)

\* the operator tokens of each left-associative level, and its node
\* the operators of equality and of term exchanged
LevelOps_swapped ==
    [or |-> {"Or"}, and |-> {"And"},
     equality |-> {"Minus", "Plus", "Percent"},
     comparison |-> {"Greater", "GreaterEqual", "Less", "LessEqual"},
     term |-> {"BangEqual", "EqualEqual"},
     factor |-> {"Slash", "Star"}]

LevelOps ==
    [or |-> {"Or"}, and |-> {"And"},
     equality |-> {"BangEqual", "EqualEqual"},
     comparison |-> {"Greater", "GreaterEqual", "Less", "LessEqual"},
     term |-> {"Minus", "Plus", "Percent"},
     factor |-> {"Slash", "Star"}]

LevelNode(level, left, operator, right) ==
    IF level \in {"or", "and"} THEN Logical(left, operator, right)
    ELSE Binary(left, operator, right)

\* the operand of each left-associative level: the next-higher level
LevelOperand ==
    [or |-> "and", and |-> "equality", equality |-> "comparison",
     comparison |-> "term", term |-> "factor", factor |-> "unary"]

\* the desugaring with Nil for an absent condition
for_desugar_nil_condition(initializer, condition, increment, body) ==
    LET body1 == IF increment # NoStmt
                 THEN BlockStmt(<<body, ExpressionStmt(increment)>>)
                 ELSE body
        cond == IF condition = NoStmt THEN Literal(NilValue) ELSE condition
        body2 == WhileStmt(cond, body1)
    IN  IF initializer # NoStmt THEN BlockStmt(<<initializer, body2>>)
        ELSE body2

\* the desugaring with the increment put before the body
for_desugar_increment_first(initializer, condition, increment, body) ==
    LET body1 == IF increment # NoStmt
                 THEN BlockStmt(<<ExpressionStmt(increment), body>>)
                 ELSE body
        cond == IF condition = NoStmt THEN Literal(TrueValue) ELSE condition
        body2 == WhileStmt(cond, body1)
    IN  IF initializer # NoStmt THEN BlockStmt(<<initializer, body2>>)
        ELSE body2

\* the desugaring that ends for_statement; NoStmt stands for None
for_desugar(initializer, condition, increment, body) ==
    LET body1 == IF increment # NoStmt
                 THEN BlockStmt(<<body, ExpressionStmt(increment)>>)
                 ELSE body
        cond == IF condition = NoStmt THEN Literal(TrueValue) ELSE condition
        body2 == WhileStmt(cond, body1)
    IN  IF initializer # NoStmt THEN BlockStmt(<<initializer, body2>>)
        ELSE body2

\* an assignment that takes a parenthesised variable for its target
assignment_target_grouped(expr, value, cur) ==
    IF expr.type = "Variable" THEN POk(Assign(expr.name, value), cur)
    ELSE IF expr.type = "Grouping" /\ expr.expression.type = "Variable"
    THEN POk(Assign(expr.expression.name, value), cur)
    ELSE PErr("Invalid assignment target.", cur)

\* the match that ends assignment: only a Variable is a target
assignment_target(expr, value, cur) ==
    IF expr.type = "Variable" THEN POk(Assign(expr.name, value), cur)
    ELSE PErr("Invalid assignment target.", cur)

(***************************************************************************)
(* The grammar rules.  The methods of the parser call one another, so they *)
(* are the arms of one recursive operator: parse_rule(rule, toks, cur,     *)
(* acc) is the method `rule` run with the cursor at cur; acc is what a     *)
(* loop has built so far (the statements of a block, the left operand of a *)
(* binary level).                                                          *)
(***************************************************************************)
RECURSIVE parse_rule(_, _, _, _)
parse_rule(rule, toks, cur, acc) ==
  LET P(r, c) == parse_rule(r, toks, c, NoStmt)
  IN
  CASE rule = "primary" ->
    IF ~InRange(toks, cur) THEN PPanic("index out of bounds", cur)
    ELSE
      LET token == parser_peek(toks, cur)
      IN  IF token.token_type = "LeftParen"
          THEN LET e == P("expression", parser_advance(toks, cur))
               IN  IF e.kind # "ok" THEN e
                   ELSE LET c == consume(toks, e.cur, "RightParen",
                                         "Expected ')'")
                        IN  IF c.kind # "ok" THEN c
                            ELSE POk(Grouping(e.val), c.cur)
          ELSE IF token.token_type \in
                    {"False", "True", "Nil", "Number", "Percent", "String"}
          THEN IF FromTokenOk(token)
               THEN POk(Literal(from_token(token)),
                        parser_advance(toks, cur))
               ELSE PPanic("Could not create LiteralValue",
                           parser_advance(toks, cur))
          ELSE IF token.token_type = "Identifier"
          THEN POk(Variable(token), parser_advance(toks, cur))
          ELSE PErr("Expected expression", cur)

  [] rule = "unary" ->
    LET m == match_tokens(toks, cur, {"Bang", "Minus"})
    IN  IF m.kind = "panic" THEN PPanic("index out of bounds", m.cur)
        ELSE IF m.matched
        THEN LET rhs == P("unary", m.cur)
             IN  IF rhs.kind # "ok" THEN rhs
                 ELSE POk(Unary(parser_previous(toks, m.cur), rhs.val),
                          rhs.cur)
        ELSE P("primary", cur)

  \* factor, term, comparison, equality, and, or: an operand of the
  \* next-higher level, then the loop
  [] rule \in DOMAIN LevelOps ->
    LET first == P(LevelOperand[rule], cur)
    IN  IF first.kind # "ok" THEN first
        ELSE parse_rule("level_loop", toks, first.cur,
                        [level |-> rule, expr |-> first.val])

  \* while self.match_tokens(ops) { fold in another operand }
  [] rule = "level_loop" ->
    LET m == match_tokens(toks, cur, LevelOps[acc.level])
    IN  IF m.kind = "panic" THEN PPanic("index out of bounds", m.cur)
        ELSE IF ~m.matched THEN POk(acc.expr, cur)
        ELSE LET rhs == P(LevelOperand[acc.level], m.cur)
             IN  IF rhs.kind # "ok" THEN rhs
                 ELSE parse_rule("level_loop", toks, rhs.cur,
                          [level |-> acc.level,
                           expr |-> LevelNode(acc.level, acc.expr,
                                        parser_previous(toks, m.cur),
                                        rhs.val)])

  [] rule = "assignment" ->
    LET expr == P("or", cur)
    IN  IF expr.kind # "ok" THEN expr
        ELSE LET m == match_token(toks, expr.cur, "Equal")
             IN  IF m.kind = "panic"
                 THEN PPanic("index out of bounds", m.cur)
                 ELSE IF ~m.matched THEN expr
                 ELSE LET value == P("assignment", m.cur)
                      IN  IF value.kind # "ok" THEN value
                          ELSE assignment_target(expr.val, value.val,
                                                 value.cur)

  [] rule = "expression" -> P("assignment", cur)

  [] rule = "expression_statement" ->
    LET expr == P("expression", cur)
    IN  IF expr.kind # "ok" THEN expr
        ELSE LET c == consume(toks, expr.cur, "Semicolon",
                              "Expected ';' after expression.")
             IN  IF c.kind # "ok" THEN c
                 ELSE POk(ExpressionStmt(expr.val), c.cur)

  [] rule = "print_statement" ->
    LET value == P("expression", cur)
    IN  IF value.kind # "ok" THEN value
        ELSE LET c == consume(toks, value.cur, "Semicolon",
                              "Expected ';' after value.")
             IN  IF c.kind # "ok" THEN c
                 ELSE POk(PrintStmt(value.val), c.cur)

  \* block_statement: acc is `statements`, empty at first
  [] rule = "block_statement" -> parse_rule("block_loop", toks, cur, <<>>)

  [] rule = "block_loop" ->
    IF ~InRange(toks, cur) THEN PPanic("index out of bounds", cur)
    ELSE IF ~check(toks, cur, "RightBrace") /\ ~parser_is_at_end(toks, cur)
    THEN LET decl == P("declaration", cur)
         IN  IF decl.kind # "ok" THEN decl
             ELSE parse_rule("block_loop", toks, decl.cur,
                             Append(acc, decl.val))
    ELSE LET c == consume(toks, cur, "RightBrace",
                          "Expected '}' after block.")
         IN  IF c.kind # "ok" THEN c
             ELSE POk(BlockStmt(acc), c.cur)

  [] rule = "if_statement" ->
    LET c1 == consume(toks, cur, "LeftParen", "Expected '(' after 'if'")
    IN  IF c1.kind # "ok" THEN c1 ELSE
        LET predicate == P("expression", c1.cur)
        IN  IF predicate.kind # "ok" THEN predicate ELSE
            LET c2 == consume(toks, predicate.cur, "RightParen",
                              "Expected ')' after if-predicate")
            IN  IF c2.kind # "ok" THEN c2 ELSE
                LET then == P("statement", c2.cur)
                IN  IF then.kind # "ok" THEN then ELSE
                    LET m == match_token(toks, then.cur, "Else")
                    IN  IF m.kind = "panic"
                        THEN PPanic("index out of bounds", m.cur)
                        ELSE IF ~m.matched
                        THEN POk(IfStmt(predicate.val, then.val, NoStmt),
                                 then.cur)
                        ELSE LET els == P("statement", m.cur)
                             IN  IF els.kind # "ok" THEN els
                                 ELSE POk(IfStmt(predicate.val, then.val,
                                                 els.val), els.cur)

  [] rule = "while_statement" ->
    LET c1 == consume(toks, cur, "LeftParen", "Expected '(' after 'while'")
    IN  IF c1.kind # "ok" THEN c1 ELSE
        LET condition == P("expression", c1.cur)
        IN  IF condition.kind # "ok" THEN condition ELSE
            LET c2 == consume(toks, condition.cur, "RightParen",
                              "Expected ')' after condition")
            IN  IF c2.kind # "ok" THEN c2 ELSE
                LET body == P("statement", c2.cur)
                IN  IF body.kind # "ok" THEN body
                    ELSE POk(WhileStmt(condition.val, body.val), body.cur)

  \* the initializer clause of for_statement: val NoStmt when there is none
  [] rule = "for_initializer" ->
    LET m1 == match_token(toks, cur, "Semicolon")
    IN  IF m1.kind = "panic" THEN PPanic("index out of bounds", m1.cur)
        ELSE IF m1.matched THEN POk(NoStmt, m1.cur)
        ELSE LET m2 == match_token(toks, cur, "Var")
             IN  IF m2.matched THEN P("var_declaration", m2.cur)
                 ELSE P("expression_statement", cur)

  \* the condition clause of for_statement and the ';' after it
  [] rule = "for_condition" ->
    IF ~InRange(toks, cur) THEN PPanic("index out of bounds", cur)
    ELSE LET expr == IF ~check(toks, cur, "Semicolon")
                     THEN P("expression", cur)
                     ELSE POk(NoStmt, cur)
         IN  IF expr.kind # "ok" THEN expr
             ELSE LET c == consume(toks, expr.cur, "Semicolon",
                                   "Expected ';' after loop condition.")
                  IN  IF c.kind # "ok" THEN c ELSE POk(expr.val, c.cur)

  \* the increment clause of for_statement and the ')' after it
  [] rule = "for_increment" ->
    IF ~InRange(toks, cur) THEN PPanic("index out of bounds", cur)
    ELSE LET expr == IF ~check(toks, cur, "RightParen")
                     THEN P("expression", cur)
                     ELSE POk(NoStmt, cur)
         IN  IF expr.kind # "ok" THEN expr
             ELSE LET c == consume(toks, expr.cur, "RightParen",
                                   "Expected ')' after for clauses.")
                  IN  IF c.kind # "ok" THEN c ELSE POk(expr.val, c.cur)

  [] rule = "for_statement" ->
    LET c1 == consume(toks, cur, "LeftParen", "Expected '(' after 'for'.")
    IN  IF c1.kind # "ok" THEN c1 ELSE
        LET initializer == P("for_initializer", c1.cur)
        IN  IF initializer.kind # "ok" THEN initializer ELSE
            LET condition == P("for_condition", initializer.cur)
            IN  IF condition.kind # "ok" THEN condition ELSE
                LET increment == P("for_increment", condition.cur)
                IN  IF increment.kind # "ok" THEN increment ELSE
                    LET body == P("statement", increment.cur)
                    IN  IF body.kind # "ok" THEN body
                        ELSE POk(for_desugar(initializer.val, condition.val,
                                             increment.val, body.val),
                                 body.cur)

  [] rule = "statement" ->
    IF ~InRange(toks, cur) THEN PPanic("index out of bounds", cur)
    ELSE IF parser_is_at_end(toks, cur) THEN P("expression_statement", cur)
    ELSE LET next == parser_advance(toks, cur)
         IN  CASE check(toks, cur, "Print") -> P("print_statement", next)
               [] check(toks, cur, "LeftBrace") -> P("block_statement", next)
               [] check(toks, cur, "If") -> P("if_statement", next)
               [] check(toks, cur, "While") -> P("while_statement", next)
               [] check(toks, cur, "For") -> P("for_statement", next)
               [] OTHER -> P("expression_statement", cur)

  [] rule = "var_declaration" ->
    LET token == consume(toks, cur, "Identifier", "Expected variable name")
    IN  IF token.kind # "ok" THEN token ELSE
        LET m == match_token(toks, token.cur, "Equal")
        IN  IF m.kind = "panic" THEN PPanic("index out of bounds", m.cur)
            ELSE
            LET initializer == IF m.matched THEN P("expression", m.cur)
                               ELSE POk(Literal(NilValue), m.cur)
            IN  IF initializer.kind # "ok" THEN initializer ELSE
                LET c == consume(toks, initializer.cur, "Semicolon",
                             "Expected ';' after variable declaration")
                IN  IF c.kind # "ok" THEN c
                    ELSE POk(VarStmt(token.val, initializer.val), c.cur)

  [] rule = "declaration" ->
    LET m == match_token(toks, cur, "Var")
    IN  IF m.kind = "panic" THEN PPanic("index out of bounds", m.cur)
        ELSE IF m.matched THEN P("var_declaration", m.cur)
        ELSE P("statement", cur)

declaration(toks, cur) == parse_rule("declaration", toks, cur, NoStmt)

\* the loop of syncronize, after its first advance
RECURSIVE syncronize_loop(_, _)
syncronize_loop(toks, cur) ==
    IF ~InRange(toks, cur) THEN PPanic("index out of bounds", cur)
    ELSE IF parser_is_at_end(toks, cur) THEN POk(NoStmt, cur)
    ELSE IF cur = 0 THEN PPanic("index out of bounds", cur)
    ELSE IF parser_previous(toks, cur).token_type = "Semicolon"
    THEN POk(NoStmt, cur)
    ELSE IF parser_peek(toks, cur).token_type \in
              {"Class", "Fun", "Var", "If", "While", "Print", "Return"}
    THEN POk(NoStmt, cur)
    ELSE syncronize_loop(toks, parser_advance(toks, cur))

\* a recovery that gives up: it skips every token up to the last one
syncronize_to_end(toks, cur) == POk(NoStmt, Len(toks) - 1)

\* a recovery that starts without its advance(): it can stop where it began
syncronize_no_advance(toks, cur) ==
    IF ~InRange(toks, cur) THEN PPanic("index out of bounds", cur)
    ELSE syncronize_loop(toks, cur)

\* syncronize: advance() indexes tokens[current - 1] on its way out
syncronize(toks, cur) ==
    IF ~InRange(toks, cur) THEN PPanic("index out of bounds", cur)
    ELSE IF parser_advance(toks, cur) = 0
    THEN PPanic("index out of bounds", cur)
    ELSE syncronize_loop(toks, parser_advance(toks, cur))

\* one iteration of the loop of parse: [kind, stmts, errors, cur]
parse_step(toks, cur, statements, errors) ==
    LET decl == declaration(toks, cur)
    IN  IF decl.kind = "ok"
        THEN [kind |-> "ok", stmts |-> Append(statements, decl.val),
              errors |-> errors, cur |-> decl.cur]
        ELSE IF decl.kind = "panic"
        THEN [kind |-> "panic", stmts |-> statements, errors |-> errors,
              cur |-> decl.cur]
        ELSE LET sync == syncronize(toks, decl.cur)
             IN  [kind |-> IF sync.kind = "panic" THEN "panic" ELSE "ok",
                  stmts |-> statements,
                  errors |-> Append(errors, decl.msg),
                  cur |-> sync.cur]

\* what parse returns: Ok(stmts) or Err(errors.join("\n"))
ParseResult(statements, errors) ==
    IF Len(errors) = 0 THEN [kind |-> "ok", msgs |-> <<>>]
    ELSE [kind |-> "err", msgs |-> errors]

(***************************************************************************)
(* Arithmetic of f32 on the numbers of the model.  A zero denominator      *)
(* stands for the values that are not finite: [0, 0] is NaN, [1, 0] and    *)
(* [-1, 0] are the infinities.  The finite results are exact: a quotient   *)
(* that f32 would round lies outside the numbers drawn by the              *)
(* specifications, and the model keeps one zero.                           *)
(***************************************************************************)
NaN == [num |-> 0, den |-> 0]
Infinity(sign) == [num |-> sign, den |-> 0]
IsNaN(x) == x.den = 0 /\ x.num = 0
IsInfinite(x) == x.den = 0 /\ x.num # 0
Sign(x) == IF x.num > 0 THEN 1 ELSE IF x.num < 0 THEN 0 - 1 ELSE 0

\* x == y, x < y and x <= y of f32: false whenever an operand is NaN
F32Eq(x, y) == ~IsNaN(x) /\ ~IsNaN(y) /\ x = y

F32Lt(x, y) ==
    /\ ~IsNaN(x) /\ ~IsNaN(y)
    /\ IF IsInfinite(x) \/ IsInfinite(y)
       THEN x # y /\ (x = Infinity(0 - 1) \/ y = Infinity(1))
       ELSE x.num * y.den < y.num * x.den

F32Le(x, y) == F32Lt(x, y) \/ F32Eq(x, y)

F32Neg(x) == [num |-> 0 - x.num, den |-> x.den]

F32Add(x, y) ==
    IF IsNaN(x) \/ IsNaN(y) THEN NaN
    ELSE IF IsInfinite(x) /\ IsInfinite(y)
    THEN (IF x = y THEN x ELSE NaN)
    ELSE IF IsInfinite(x) THEN x
    ELSE IF IsInfinite(y) THEN y
    ELSE Rat(x.num * y.den + y.num * x.den, x.den * y.den)

F32Sub(x, y) == F32Add(x, F32Neg(y))

F32Mul(x, y) ==
    IF IsNaN(x) \/ IsNaN(y) THEN NaN
    ELSE IF IsInfinite(x) \/ IsInfinite(y)
    THEN (IF Sign(x) * Sign(y) = 0 THEN NaN
          ELSE Infinity(Sign(x) * Sign(y)))
    ELSE Rat(x.num * y.num, x.den * y.den)

F32Div(x, y) ==
    IF IsNaN(x) \/ IsNaN(y) THEN NaN
    ELSE IF IsInfinite(x)
    THEN (IF IsInfinite(y) THEN NaN
          ELSE Infinity(Sign(x) * (IF Sign(y) < 0 THEN 0 - 1 ELSE 1)))
    ELSE IF IsInfinite(y) THEN Num(0)
    ELSE IF y.num = 0
    THEN (IF x.num = 0 THEN NaN ELSE Infinity(Sign(x)))
    ELSE Rat(x.num * y.den, x.den * y.num)

\* the quotient of x by y rounded towards zero, for finite x and y # 0
TruncDiv(x, y) ==
    Sign(x) * Sign(y) * ((Abs(x.num) * y.den) \div (x.den * Abs(y.num)))

\* x % y of f32: the remainder that has the sign of x
F32Rem(x, y) ==
    IF IsNaN(x) \/ IsNaN(y) \/ IsInfinite(x) THEN NaN
    ELSE IF IsInfinite(y) THEN x
    ELSE IF y.num = 0 THEN NaN
    ELSE F32Sub(x, F32Mul(Num(TruncDiv(x, y)), y))

(***************************************************************************)
(* The printed forms (src/src/ast.rs, src/src/stmt.rs, Token::to_string).  *)
(***************************************************************************)
RECURSIVE NatToString(_)
NatToString(n) ==
    IF n < 10 THEN <<Ascii["0"] + n>>
    ELSE NatToString(n \div 10) \o <<Ascii["0"] + (n % 10)>>

\* the digits of n, padded with zeros on the left to k digits
RECURSIVE Padded(_, _)
Padded(n, k) ==
    IF k = 0 THEN <<>> ELSE Padded(n \div 10, k - 1) \o <<Ascii["0"] + (n % 10)>>

\* the least k <= limit with den dividing 10^k, or limit + 1
RECURSIVE DecimalPlaces(_, _, _)
DecimalPlaces(den, k, limit) ==
    IF k > limit \/ den = 0 \/ Pow10(k) % den = 0 THEN k
    ELSE DecimalPlaces(den, k + 1, limit)

\* f32's Display: the shortest decimal that reads back as the number. The
\* numbers of the model have at most six decimal places; any other number
\* is outside the model and printed as "?".
F32ToString(x) ==
    LET k == DecimalPlaces(x.den, 0, 6)
        scaled == (Abs(x.num) * Pow10(k)) \div x.den
        sign == IF x.num < 0 THEN Str(<<"-">>) ELSE <<>>
    IN  IF IsNaN(x) THEN Str(<<"N", "a", "N">>)
        ELSE IF IsInfinite(x) THEN sign \o Str(<<"i", "n", "f">>)
        ELSE IF k > 6 THEN Str(<<"?">>)
        ELSE IF k = 0 THEN sign \o NatToString(scaled)
        ELSE sign \o NatToString(scaled \div Pow10(k)) \o Str(<<".">>)
                  \o Padded(scaled % Pow10(k), k)

\* LiteralValue::to_string
literal_to_string(value) ==
    CASE value.kind = "Number" -> F32ToString(value.n)
      [] value.kind = "StringValue" ->
             Str(<<"\"">>) \o value.s \o Str(<<"\"">>)
      [] value.kind = "True" -> Str(<<"t", "r", "u", "e">>)
      [] value.kind = "False" -> Str(<<"f", "a", "l", "s", "e">>)
      [] value.kind = "Nil" -> Str(<<"n", "i", "l", "l">>)

\* {:?} of the token types the printed forms meet
DebugTokenType(token_type) ==
    CASE token_type = "Or" -> Str(<<"O", "r">>)
      [] token_type = "And" -> Str(<<"A", "n", "d">>)
      [] token_type = "Identifier" ->
             Str(<<"I", "d", "e", "n", "t", "i", "f", "i", "e", "r">>)
      [] OTHER -> Str(<<"?">>)

\* {:?} of a token's literal: the scanner gives operators and names None
DebugLiteral(literal) ==
    IF literal.tag = "None" THEN Str(<<"N", "o", "n", "e">>)
    ELSE Str(<<"S", "o", "m", "e", "(", "?", ")">>)

\* Token::to_string: "{:?} {} {:?}" of token_type, lexeme and literal
token_to_string(token) ==
    DebugTokenType(token.token_type) \o Str(<<" ">>) \o token.lexeme
        \o Str(<<" ">>) \o DebugLiteral(token.literal)

\* {:?} of a Token (the derived Debug), as Expr::to_string prints the name
\* of an Assign; the lexeme of a name needs no escape
DebugToken(token) ==
    Str(<<"T", "o", "k", "e", "n", " ", "{", " ", "t", "o", "k", "e",
              "n", "_", "t", "y", "p", "e", ":", " ">>)
        \o DebugTokenType(token.token_type)
        \o Str(<<",", " ", "l", "e", "x", "e", "m", "e", ":", " ", "\"">>)
        \o token.lexeme
        \o Str(<<"\"", ",", " ", "l", "i", "t", "e", "r", "a", "l", ":", " ">>)
        \o DebugLiteral(token.literal)
        \o Str(<<",", " ", "l", "i", "n", "e", "_", "n", "u", "m", "b", "e",
              "r", ":", " ">>)
        \o NatToString(token.line_number)
        \o Str(<<" ", "}">>)

\* Expr::to_string (the parser builds no Call node)
RECURSIVE expr_to_string(_)
expr_to_string(e) ==
    CASE e.type = "Assign" ->
             Str(<<"(">>) \o DebugToken(e.name) \o Str(<<"=">>)
                 \o expr_to_string(e.value) \o Str(<<")">>)
      [] e.type = "Binary" ->
             Str(<<"(">>) \o e.operator.lexeme \o Str(<<" ">>)
                 \o expr_to_string(e.left) \o Str(<<" ">>)
                 \o expr_to_string(e.right) \o Str(<<")">>)
      [] e.type = "Grouping" ->
             Str(<<"(", "g", "r", "o", "u", "p", " ">>)
                 \o expr_to_string(e.expression) \o Str(<<")">>)
      [] e.type = "Literal" -> literal_to_string(e.value)
      [] e.type = "Unary" ->
             Str(<<"(">>) \o e.operator.lexeme \o Str(<<" ">>)
                 \o expr_to_string(e.right) \o Str(<<")">>)
      [] e.type = "Variable" ->
             Str(<<"(", "v", "a", "r", " ">>) \o e.name.lexeme
                 \o Str(<<")">>)
      [] e.type = "Logical" ->
             Str(<<"(">>) \o token_to_string(e.operator) \o Str(<<" ">>)
                 \o expr_to_string(e.left) \o Str(<<" ">>)
                 \o expr_to_string(e.right) \o Str(<<")">>)

\* Stmt::to_string reaches todo!() on an IfStmt or a WhileStmt
RECURSIVE StmtToStringOk(_)
StmtToStringOk(s) ==
    CASE s.type \in {"IfStmt", "WhileStmt"} -> FALSE
      [] s.type = "Block" ->
             \A i \in 1..Len(s.statements) : StmtToStringOk(s.statements[i])
      [] OTHER -> TRUE

RECURSIVE stmt_to_string(_), stmts_to_string(_)
stmt_to_string(s) ==
    CASE s.type = "Expression" -> expr_to_string(s.expression)
      [] s.type = "Print" ->
             Str(<<"(", "p", "r", "i", "n", "t", " ">>)
                 \o expr_to_string(s.expression) \o Str(<<")">>)
      [] s.type = "Var" ->
             Str(<<"(", "v", "a", "r", " ">>) \o s.name.lexeme \o Str(<<")">>)
      [] s.type = "Block" ->
             Str(<<"(", "b", "l", "o", "c", "k", " ">>)
                 \o stmts_to_string(s.statements) \o Str(<<")">>)

stmts_to_string(ss) ==
    IF ss = <<>> THEN <<>>
    ELSE stmt_to_string(Head(ss)) \o stmts_to_string(Tail(ss))

(***************************************************************************)
(* Environment.  environment.rs is not part of the sources at hand: the    *)
(* scope chain follows section 4.2 of the specification.  The interpreter  *)
(* state holds every live scope in `scopes`; a scope is its bindings, a    *)
(* sequence of [key, val], and the index of its enclosing scope, 0 for the *)
(* root; `current` is the index of the innermost scope.                    *)
(***************************************************************************)
\* the position of name among the bindings of one scope, or 0
BindingIndex(values, name) ==
    IF \E i \in 1..Len(values) : values[i].key = name
    THEN CHOOSE i \in 1..Len(values) : values[i].key = name
    ELSE 0

\* the nearest scope, from idx outward, that binds name, or 0
RECURSIVE DefiningScope(_, _, _)
DefiningScope(scopes, idx, name) ==
    IF idx = 0 THEN 0
    ELSE IF BindingIndex(scopes[idx].values, name) # 0 THEN idx
    ELSE DefiningScope(scopes, scopes[idx].enclosing, name)

\* the bindings of one scope with name bound to value
Bound(values, name, value) ==
    IF BindingIndex(values, name) = 0
    THEN Append(values, [key |-> name, val |-> value])
    ELSE [values EXCEPT ![BindingIndex(values, name)].val = value]

\* define overwriting the nearest binding of the chain when there is one
define_nearest(it, name, value) ==
    IF DefiningScope(it.scopes, it.current, name) = 0
    THEN [it EXCEPT !.scopes[it.current].values = Bound(@, name, value)]
    ELSE [it EXCEPT
            !.scopes[DefiningScope(it.scopes, it.current, name)].values =
                Bound(@, name, value)]

\* define: inserts or overwrites in the current scope
define(it, name, value) ==
    [it EXCEPT !.scopes[it.current].values = Bound(@, name, value)]

\* get: [tag |-> "None"], or the value of the nearest binding
get(it, name) ==
    IF DefiningScope(it.scopes, it.current, name) = 0 THEN None
    ELSE [tag |-> "Some",
          val |-> it.scopes[DefiningScope(it.scopes, it.current, name)]
                    .values[BindingIndex(
                        it.scopes[DefiningScope(it.scopes, it.current,
                                                name)].values, name)].val]

\* assign: overwrites the nearest binding; without one it reports failure
assign(it, name, value) ==
    IF DefiningScope(it.scopes, it.current, name) = 0
    THEN [success |-> FALSE, it |-> it]
    ELSE [success |-> TRUE,
          it |-> [it EXCEPT
                    !.scopes[DefiningScope(it.scopes, it.current, name)]
                        .values = Bound(@, name, value)]]

(***************************************************************************)
(* Expr::evaluate (src/src/ast.rs).  An evaluation yields                  *)
(* [kind, val, it, msg]: kind is "ok", "err" or "panic", val the value,    *)
(* it the interpreter state after it and msg the message of the failure.   *)
(***************************************************************************)
EvOk(val, it) == [kind |-> "ok", val |-> val, it |-> it, msg |-> <<>>]
EvErr(msg, it) == [kind |-> "err", val |-> NilValue, it |-> it, msg |-> msg]
EvPanic(msg, it) ==
    [kind |-> "panic", val |-> NilValue, it |-> it, msg |-> msg]

from_bool(b) == IF b THEN TrueValue ELSE FalseValue

\* is_falsy taking the empty String for not falsy
is_falsy_but_empty_text(value) ==
    CASE value.kind = "Number" -> from_bool(F32Eq(value.n, Num(0)))
      [] value.kind = "StringValue" -> FalseValue
      [] value.kind = "True" -> FalseValue
      [] value.kind = "False" -> TrueValue
      [] value.kind = "Nil" -> TrueValue

is_falsy(value) ==
    CASE value.kind = "Number" -> from_bool(F32Eq(value.n, Num(0)))
      [] value.kind = "StringValue" -> from_bool(ByteLen(value.s) = 0)
      [] value.kind = "True" -> FalseValue
      [] value.kind = "False" -> TrueValue
      [] value.kind = "Nil" -> TrueValue

is_truthy(value) ==
    CASE value.kind = "Number" -> from_bool(~F32Eq(value.n, Num(0)))
      [] value.kind = "StringValue" -> from_bool(ByteLen(value.s) # 0)
      [] value.kind = "True" -> TrueValue
      [] value.kind = "False" -> FalseValue
      [] value.kind = "Nil" -> FalseValue

\* LiteralValue::to_type
to_type(value) ==
    IF value.kind = "StringValue" THEN "String" ELSE value.kind

\* the derived PartialEq of LiteralValue
ValueEq(x, y) ==
    /\ x.kind = y.kind
    /\ CASE x.kind = "Number" -> F32Eq(x.n, y.n)
         [] x.kind = "StringValue" -> x.s = y.s
         [] OTHER -> TRUE

\* s1 < s2 of String: the order of the bytes
RECURSIVE BytesLt(_, _)
BytesLt(b1, b2) ==
    IF b2 = <<>> THEN FALSE
    ELSE IF b1 = <<>> THEN TRUE
    ELSE IF Head(b1) # Head(b2) THEN Head(b1) < Head(b2)
    ELSE BytesLt(Tail(b1), Tail(b2))

StringLt(s1, s2) == BytesLt(Utf8(s1), Utf8(s2))

ArithmeticOps == {"Plus", "Minus", "Star", "Slash", "Percent"}
OrderOps == {"Less", "LessEqual", "Greater", "GreaterEqual"}

\* the arms of Binary on two Numbers
number_binary(x, token_type, y) ==
    CASE token_type = "Plus" -> NumberValue(F32Add(x, y))
      [] token_type = "Minus" -> NumberValue(F32Sub(x, y))
      [] token_type = "Star" -> NumberValue(F32Mul(x, y))
      [] token_type = "Slash" -> NumberValue(F32Div(x, y))
      [] token_type = "Percent" -> NumberValue(F32Rem(x, y))
      [] token_type = "Less" -> from_bool(F32Lt(x, y))
      [] token_type = "LessEqual" -> from_bool(F32Le(x, y))
      [] token_type = "Greater" -> from_bool(F32Lt(y, x))
      [] token_type = "GreaterEqual" -> from_bool(F32Le(y, x))

\* the arms of Binary on two Strings that order them
string_order(s1, token_type, s2) ==
    CASE token_type = "Greater" -> from_bool(StringLt(s2, s1))
      [] token_type = "GreaterEqual" -> from_bool(~StringLt(s1, s2))
      [] token_type = "Less" -> from_bool(StringLt(s1, s2))
      [] token_type = "LessEqual" -> from_bool(~StringLt(s2, s1))

\* the match of Binary with the right String first in the concatenation
binary_right_first(left, token_type, right, it) ==
    IF left.kind = "Number" /\ right.kind = "Number"
       /\ token_type \in ArithmeticOps \cup OrderOps
    THEN EvOk(number_binary(left.n, token_type, right.n), it)
    ELSE IF left.kind = "StringValue" /\ right.kind = "Number"
    THEN EvErr(<<"is not defined for string and numbers", token_type>>, it)
    ELSE IF left.kind = "Number" /\ right.kind = "StringValue"
    THEN EvErr(<<"is not defined for string and numbers", token_type>>, it)
    ELSE IF left.kind = "StringValue" /\ right.kind = "StringValue"
            /\ token_type = "Plus"
    THEN EvOk(StringValue(right.s \o left.s), it)
    ELSE IF token_type = "BangEqual"
    THEN EvOk(from_bool(~ValueEq(left, right)), it)
    ELSE IF token_type = "EqualEqual"
    THEN EvOk(from_bool(ValueEq(left, right)), it)
    ELSE IF left.kind = "StringValue" /\ right.kind = "StringValue"
            /\ token_type \in OrderOps
    THEN EvOk(string_order(left.s, token_type, right.s), it)
    ELSE EvErr(<<"is not implemented for operands", token_type, left,
                 right>>, it)

\* the match of Binary on (left, operator, right), arm after arm
binary(left, token_type, right, it) ==
    IF left.kind = "Number" /\ right.kind = "Number"
       /\ token_type \in ArithmeticOps \cup OrderOps
    THEN EvOk(number_binary(left.n, token_type, right.n), it)
    ELSE IF left.kind = "StringValue" /\ right.kind = "Number"
    THEN EvErr(<<"is not defined for string and numbers", token_type>>, it)
    ELSE IF left.kind = "Number" /\ right.kind = "StringValue"
    THEN EvErr(<<"is not defined for string and numbers", token_type>>, it)
    ELSE IF left.kind = "StringValue" /\ right.kind = "StringValue"
            /\ token_type = "Plus"
    THEN EvOk(StringValue(left.s \o right.s), it)
    ELSE IF token_type = "BangEqual"
    THEN EvOk(from_bool(~ValueEq(left, right)), it)
    ELSE IF token_type = "EqualEqual"
    THEN EvOk(from_bool(ValueEq(left, right)), it)
    ELSE IF left.kind = "StringValue" /\ right.kind = "StringValue"
            /\ token_type \in OrderOps
    THEN EvOk(string_order(left.s, token_type, right.s), it)
    ELSE EvErr(<<"is not implemented for operands", token_type, left,
                 right>>, it)

\* the match of Unary on (right, operator)
unary(token_type, right, it) ==
    IF right.kind = "Number" /\ token_type = "Minus"
    THEN EvOk(NumberValue(F32Neg(right.n)), it)
    ELSE IF token_type = "Minus"
    THEN EvErr(<<"Minus not implemented for", to_type(right)>>, it)
    ELSE IF token_type = "Bang" THEN EvOk(is_falsy(right), it)
    ELSE EvErr(<<"is not a valid unary operator", token_type>>, it)

\* an assignment to an undeclared name declaring it in the current scope
assigned_or_defined(name, value, done) ==
    IF done.success THEN EvOk(value, done.it)
    ELSE EvOk(value, define(done.it, name.lexeme, value))

\* the end of Assign, once the value is there
assigned(name, value, done) ==
    IF done.success THEN EvOk(value, done.it)
    ELSE EvErr(<<"Variable has not been declared.", name.lexeme>>, done.it)

\* a read of an undeclared name yielding nil
variable_or_nil(name, found, it) ==
    IF found.tag = "None" THEN EvOk(NilValue, it) ELSE EvOk(found.val, it)

\* the Variable arm: the value found by get, or the failure
variable(name, found, it) ==
    IF found.tag = "None"
    THEN EvErr(<<"Variable has not been declared", name.lexeme>>, it)
    ELSE EvOk(found.val, it)

\* `and` yielding its left operand when that is falsy
logical_short_lhs(token_type, lhs_value) ==
    IF token_type = "Or"
    THEN (IF is_truthy(lhs_value.val) = TrueValue
          THEN [tag |-> "Some", ev |-> lhs_value]
          ELSE None)
    ELSE (IF is_truthy(lhs_value.val) = FalseValue
          THEN [tag |-> "Some", ev |-> lhs_value]
          ELSE None)

\* the Or and And arms once the left operand is there: the result when
\* the right operand is not to be evaluated, or None
logical_short(token_type, lhs_value) ==
    IF token_type = "Or"
    THEN (IF is_truthy(lhs_value.val) = TrueValue
          THEN [tag |-> "Some", ev |-> lhs_value]
          ELSE None)
    ELSE (IF is_truthy(lhs_value.val) = FalseValue
          THEN [tag |-> "Some",
                ev |-> EvOk(is_truthy(lhs_value.val), lhs_value.it)]
          ELSE None)

RECURSIVE evaluate(_, _)
evaluate(e, it) ==
    CASE e.type = "Assign" ->
             LET new_value == evaluate(e.value, it)
             IN  IF new_value.kind # "ok" THEN new_value
                 ELSE assigned(e.name, new_value.val,
                               assign(new_value.it, e.name.lexeme,
                                      new_value.val))
      [] e.type = "Variable" ->
             variable(e.name, get(it, e.name.lexeme), it)
      [] e.type = "Literal" -> EvOk(e.value, it)
      [] e.type = "Grouping" -> evaluate(e.expression, it)
      [] e.type = "Unary" ->
             LET right == evaluate(e.right, it)
             IN  IF right.kind # "ok" THEN right
                 ELSE unary(e.operator.token_type, right.val, right.it)
      [] e.type = "Binary" ->
             LET left == evaluate(e.left, it)
             IN  IF left.kind # "ok" THEN left
                 ELSE LET right == evaluate(e.right, left.it)
                      IN  IF right.kind # "ok" THEN right
                          ELSE binary(left.val, e.operator.token_type,
                                      right.val, right.it)
      [] e.type = "Logical" ->
             LET lhs_value == evaluate(e.left, it)
             IN  IF e.operator.token_type \notin {"Or", "And"}
                 THEN EvErr(<<"Invalid token in logical expression",
                              e.operator.token_type>>, it)
                 ELSE IF lhs_value.kind # "ok" THEN lhs_value
                 ELSE IF logical_short(e.operator.token_type,
                                       lhs_value).tag = "Some"
                 THEN logical_short(e.operator.token_type, lhs_value).ev
                 ELSE evaluate(e.right, lhs_value.it)
      [] e.type = "Call" -> EvPanic(<<"not yet implemented">>, it)

(***************************************************************************)
(* Interpreter.  interpreter.rs is not part of the sources at hand: the    *)
(* execution of statements follows section 4.5 of the specification.  An   *)
(* execution yields [kind, it, msg]; besides "ok", "err" and "panic" the   *)
(* kind is "diverged" when a loop asks for more than MaxIter iterations.   *)
(* `output` holds the lines written to the standard output, each with the  *)
(* writer (`by`) that wrote it.                                            *)
(***************************************************************************)
ExOk(it) == [kind |-> "ok", it |-> it, msg |-> <<>>]

\* an evaluation seen as the execution of a statement
Executed(ev) == [kind |-> ev.kind, it |-> ev.it, msg |-> ev.msg]

\* Print: the textual form of the value goes to the standard output
print_value(ev) ==
    IF ev.kind # "ok" THEN Executed(ev)
    ELSE ExOk([ev.it EXCEPT !.output =
             Append(@, [by |-> "print", text |-> literal_to_string(ev.val)])])

\* Var: the name is defined in the current scope
declare(name, ev) ==
    IF ev.kind # "ok" THEN Executed(ev)
    ELSE ExOk(define(ev.it, name.lexeme, ev.val))

\* the new scope taking itself for its parent
enter_block_own_parent(it) ==
    [it EXCEPT !.scopes = Append(@, [values |-> <<>>,
                                     enclosing |-> Len(it.scopes) + 1]),
               !.current = Len(it.scopes) + 1]

\* a block runs in one new scope whose parent is the current scope
enter_block(it) ==
    [it EXCEPT !.scopes = Append(@, [values |-> <<>>,
                                     enclosing |-> it.current]),
               !.current = Len(it.scopes) + 1]

\* leave_block restoring the scope only when the block succeeded
leave_block_on_success(before, ex) ==
    IF ex.kind = "ok"
    THEN [ex EXCEPT !.it.scopes = SubSeq(@, 1, Len(before.scopes)),
                    !.it.current = before.current]
    ELSE ex

\* the scope of the block is discarded, by success or by failure
leave_block(before, ex) ==
    [ex EXCEPT !.it.scopes = SubSeq(@, 1, Len(before.scopes)),
               !.it.current = before.current]

RECURSIVE execute(_, _, _), execute_all(_, _, _), while_loop(_, _, _)
execute(s, it, fuel) ==
    CASE s.type = "Expression" -> Executed(evaluate(s.expression, it))
      [] s.type = "Print" -> print_value(evaluate(s.expression, it))
      [] s.type = "Var" -> declare(s.name, evaluate(s.initializer, it))
      [] s.type = "Block" ->
             leave_block(it, execute_all(s.statements, enter_block(it),
                                         fuel))
      [] s.type = "IfStmt" ->
             LET predicate == evaluate(s.predicate, it)
             IN  IF predicate.kind # "ok" THEN Executed(predicate)
                 ELSE IF is_truthy(predicate.val) = TrueValue
                 THEN execute(s.then, predicate.it, fuel)
                 ELSE IF s.els.type = "None" THEN ExOk(predicate.it)
                 ELSE execute(s.els, predicate.it, fuel)
      [] s.type = "WhileStmt" -> while_loop(s, it, fuel)

\* the statements of a block, in order, up to the first failure
execute_all(ss, it, fuel) ==
    IF ss = <<>> THEN ExOk(it)
    ELSE LET first == execute(Head(ss), it, fuel)
         IN  IF first.kind # "ok" THEN first
             ELSE execute_all(Tail(ss), first.it, fuel)

\* While: the condition is checked before each iteration
while_loop(s, it, fuel) ==
    LET condition == evaluate(s.condition, it)
    IN  IF condition.kind # "ok" THEN Executed(condition)
        ELSE IF is_truthy(condition.val) # TrueValue
        THEN ExOk(condition.it)
        ELSE IF fuel = 0
        THEN [kind |-> "diverged", it |-> condition.it, msg |-> <<>>]
        ELSE LET body == execute(s.body, condition.it, fuel)
             IN  IF body.kind # "ok" THEN body
                 ELSE while_loop(s, body.it, fuel - 1)

(***************************************************************************)
(* State shared by the specifications.                                     *)
(***************************************************************************)
NoResult == [kind |-> "none"]
NoParser == [tokens |-> <<>>, current |-> 0]
NoInput == [kind |-> "none"]

\* Interpreter::new: one root scope, without parent; nothing written yet
NewInterpreter ==
    [scopes |-> <<[values |-> <<>>, enclosing |-> 0]>>,
     current |-> 1,
     output |-> <<>>]

(***************************************************************************)
(* Scanner::scan_tokens, one action per iteration of its loop and one for  *)
(* what follows the loop.                                                  *)
(***************************************************************************)
ScanToken ==
    /\ pc = "scan"
    /\ ~is_at_end(scanner)
    /\ \E r \in {scan_token([scanner EXCEPT !.start = scanner.current])} :
           /\ scanner' = r.s
           /\ scan_errors' = IF r.kind = "err" THEN Append(scan_errors, r.msg)
                             ELSE scan_errors
           /\ pc' = IF r.kind = "panic" THEN "panicked" ELSE "scan"
           /\ result' = IF r.kind = "panic"
                        THEN [kind |-> "panic", msgs |-> <<r.msg>>]
                        ELSE result
    /\ UNCHANGED <<parser, stmts, parse_errors, interp, ip, runs, input>>

\* scan_tokens without the push of the Eof token when errors were met
scan_tokens_end_no_eof(s) ==
    IF \E i \in 1..Len(s.tokens) : s.tokens[i].token_type = "Eof"
       \/ s.tokens = <<>>
    THEN [s EXCEPT !.tokens = Append(@, EofToken(s.line))]
    ELSE s

\* the tokens after the loop of scan_tokens
scan_tokens_end(s) ==
    [s EXCEPT !.tokens = Append(@, EofToken(s.line))]

\* scan_tokens as a whole: the loop and the push of the Eof token
RECURSIVE scan_all(_, _)
scan_all(s, errors) ==
    IF is_at_end(s)
    THEN [kind |-> "returned", s |-> scan_tokens_end(s), errors |-> errors]
    ELSE LET r == scan_token([s EXCEPT !.start = s.current])
         IN  IF r.kind = "panic"
             THEN [kind |-> "panic", s |-> r.s, errors |-> errors]
             ELSE scan_all(r.s, IF r.kind = "err" THEN Append(errors, r.msg)
                                ELSE errors)

ScanTokensReturn ==
    /\ pc = "scan"
    /\ is_at_end(scanner)
    /\ scanner' = scan_tokens_end(scanner)
    /\ result' = ScanResult(scan_errors)
    /\ pc' = "scanned"
    /\ UNCHANGED <<scan_errors, parser, stmts, parse_errors, interp, ip,
                   runs, input>>

(***************************************************************************)
(* SpecScan: the scanner alone, on every text of at most MaxLen characters *)
(* over ScanAlphabet and on a few longer ones.                             *)
(***************************************************************************)
ScanAlphabet ==
    {Ascii[c] : c \in {";", "=", "/", " ", "\n", "\"", "1", ".", "a", "@",
                       "e-acute", "dotless-i"}}

ShortTexts == UNION {[1..n -> ScanAlphabet] : n \in 0..MaxLen}

LongTexts ==
    {Str(<<"\"", "a", "b", "c">>),
     Str(<<"\"", "a", "\n", "b", "\"", "@">>),
     Str(<<"v", "a", "r", " ", "x", "=", "1", ".", "5", ";">>),
     Str(<<"1", "@", "!", "=", "@", "o", "r">>),
     Str(<<"/", "/", "@", "\n", "<", "=", ">", "\"">>),
     Str(<<"L-stroke", "1", ";">>),
     Str(<<"dotless-i", "1", ";", ";">>)}

ScanTexts == ShortTexts \cup LongTexts

InitScan ==
    /\ pc = "scan"
    /\ \E text \in ScanTexts : scanner = NewScanner(text)
    /\ scan_errors = <<>>
    /\ parser = NoParser
    /\ stmts = <<>>
    /\ parse_errors = <<>>
    /\ result = NoResult
    /\ interp = NewInterpreter
    /\ ip = 0
    /\ runs = 0
    /\ input = NoInput

NextScan == ScanToken \/ ScanTokensReturn

SpecScan == InitScan /\ [][NextScan]_vars

(***************************************************************************)
(* Parser::parse, one action per iteration of its loop and one for what    *)
(* follows the loop.                                                       *)
(***************************************************************************)
ParseDeclaration ==
    /\ pc = "parse"
    /\ ~(InRange(parser.tokens, parser.current)
           /\ parser_is_at_end(parser.tokens, parser.current))
    /\ \E r \in {parse_step(parser.tokens, parser.current, stmts,
                           parse_errors)} :
           /\ parser' = [parser EXCEPT !.current = r.cur]
           /\ stmts' = r.stmts
           /\ parse_errors' = r.errors
           /\ pc' = IF r.kind = "panic" THEN "panicked" ELSE "parse"
           /\ result' = IF r.kind = "panic"
                        THEN [kind |-> "panic", msgs |-> <<>>]
                        ELSE result
    /\ UNCHANGED <<scanner, scan_errors, interp, ip, runs, input>>

ParseReturn ==
    /\ pc = "parse"
    /\ InRange(parser.tokens, parser.current)
    /\ parser_is_at_end(parser.tokens, parser.current)
    /\ result' = ParseResult(stmts, parse_errors)
    /\ pc' = "parsed"
    /\ UNCHANGED <<scanner, scan_errors, parser, stmts, parse_errors, interp,
                   ip, runs, input>>

(***************************************************************************)
(* SpecParse: the parser as the tests of parser.rs drive it: a token       *)
(* vector built by hand (test_addition), or a text scanned by              *)
(* scan_tokens().unwrap() and its tokens handed to Parser::new.            *)
(***************************************************************************)
RECURSIVE Concat(_)
Concat(texts) ==
    IF texts = <<>> THEN <<>> ELSE Head(texts) \o Concat(Tail(texts))

\* the pieces of the exhaustive inputs: one token each
Words ==
    {Str(<<"1">>), Str(<<"+">>), Str(<<"%">>), Str(<<";">>), Str(<<"(">>),
     Str(<<")">>), Str(<<"x", " ">>), Str(<<"=">>), Str(<<"{">>),
     Str(<<"}">>), Str(<<"v", "a", "r", " ">>),
     Str(<<"p", "r", "i", "n", "t", " ">>)}

\* statements with a syntax error, ended by their own ';'
ErrStmtsTerminated ==
    {Str(<<"1", "+", ";">>), Str(<<"v", "a", "r", ";">>),
     Str(<<"(", "1", ";">>), Str(<<"1", "=", "2", ";">>)}

\* a print statement that lacks its ';'
ErrStmtsOpen == {Str(<<"p", "r", "i", "n", "t", " ", "1", " ">>)}

ErrStmts == ErrStmtsTerminated \cup ErrStmtsOpen

GoodStmts ==
    {Str(<<"1", ";">>), Str(<<"p", "r", "i", "n", "t", " ", "2", ";">>),
     Str(<<"v", "a", "r", " ", "x", ";">>)}

\* the message the parser gives for each erroneous statement on its own
ErrStmtMessage(text) ==
    CASE text = Str(<<"1", "+", ";">>) -> "Expected expression"
      [] text = Str(<<"v", "a", "r", ";">>) -> "Expected variable name"
      [] text = Str(<<"(", "1", ";">>) -> "Expected ')'"
      [] text = Str(<<"1", "=", "2", ";">>) -> "Invalid assignment target."
      [] text = Str(<<"p", "r", "i", "n", "t", " ", "1", " ">>) ->
             "Expected ';' after value."

\* number literals: the numbers up to MaxLit, one with a fraction and one
\* of two digits; each is printed as it is written
NumberLiterals ==
    {NatToString(n) : n \in 0..MaxLit}
        \cup {Str(<<"1", ".", "5">>), Str(<<"1", "2">>)}

\* `a + b == c + d;`
EqualityText(a, b, c, d) ==
    a \o Str(<<" ", "+", " ">>) \o b \o Str(<<" ", "=", "=", " ">>) \o c
      \o Str(<<" ", "+", " ">>) \o d \o Str(<<";">>)

\* `a == (b + c);`
GroupText(a, b, c) ==
    a \o Str(<<" ", "=", "=", " ", "(">>) \o b \o Str(<<" ", "+", " ">>) \o c
      \o Str(<<")", ";">>)

\* the clauses of the `for` statements of the inputs; an absent
\* initializer is the lone `;`, an absent condition or increment is empty
ForInits ==
    {Str(<<";">>),
     Str(<<"v", "a", "r", " ", "i", "=", "0", ";">>),
     Str(<<"i", "=", "0", ";">>)}
ForConditions ==
    {<<>>,
     Str(<<"i", "<", "2">>)}
ForIncrements ==
    {<<>>,
     Str(<<"i", "=", "i", "+", "1">>)}
ForBodies ==
    {Str(<<"p", "r", "i", "n", "t", " ", "i", ";">>),
     Str(<<"{", "p", "r", "i", "n", "t", " ", "i", ";", "}">>)}

\* `for(init cond; incr) body`
ForText(init, cond, incr, body) ==
    Concat(<<
        Str(<<"f", "o", "r", "(">>),
        init, cond,
        Str(<<";">>),
        incr,
        Str(<<")">>),
        body>>)

\* the targets and the text `t1 = t2 = e;` of a chain of two assignments
AssignTargets ==
    {Str(<<"a">>),
     Str(<<"b">>),
     Str(<<"1">>),
     Str(<<"(", "a", ")">>),
     Str(<<"a", " ", "+", " ", "b">>)}

AssignmentText(t1, t2, e) ==
    Concat(<<t1,
        Str(<<" ", "=", " ">>),
        t2,
        Str(<<" ", "=", " ">>),
        e,
        Str(<<";">>)>>)

ParseInputs ==
    {[kind |-> "words", parts |-> ws] :
        ws \in UNION {[1..n -> Words] : n \in 0..MaxToks}}
    \cup {[kind |-> "statements", parts |-> ss] :
        ss \in UNION {[1..n -> ErrStmts \cup GoodStmts] : n \in 2..MaxStmts}}
    \cup {[kind |-> "equality", parts |-> <<a, b, c, d>>] :
        a \in NumberLiterals, b \in NumberLiterals, c \in NumberLiterals,
        d \in NumberLiterals}
    \cup {[kind |-> "group", parts |-> <<a, b, c>>] :
        a \in NumberLiterals, b \in NumberLiterals, c \in NumberLiterals}
    \cup {[kind |-> "for", parts |-> <<init, cond, incr, body>>] :
        init \in ForInits, cond \in ForConditions, incr \in ForIncrements,
        body \in ForBodies}
    \cup {[kind |-> "assignment", parts |-> <<t1, t2, e>>] :
        t1 \in AssignTargets, t2 \in AssignTargets, e \in NumberLiterals}

InputText(in) ==
    CASE in.kind = "equality" ->
             EqualityText(in.parts[1], in.parts[2], in.parts[3], in.parts[4])
      [] in.kind = "group" ->
             GroupText(in.parts[1], in.parts[2], in.parts[3])
      [] in.kind = "for" ->
             ForText(in.parts[1], in.parts[2], in.parts[3], in.parts[4])
      [] in.kind = "assignment" ->
             AssignmentText(in.parts[1], in.parts[2], in.parts[3])
      [] OTHER -> Concat(in.parts)

\* the token vector of tests::test_addition: it has no Eof token
TestAdditionTokens ==
    <<[token_type |-> "Number", lexeme |-> Str(<<"1">>),
       literal |-> [tag |-> "IntValue", int |-> 1], line_number |-> 0],
      [token_type |-> "Plus", lexeme |-> Str(<<"+">>),
       literal |-> None, line_number |-> 0],
      [token_type |-> "Number", lexeme |-> Str(<<"2">>),
       literal |-> [tag |-> "IntValue", int |-> 2], line_number |-> 0],
      [token_type |-> "Semicolon", lexeme |-> Str(<<";">>),
       literal |-> None, line_number |-> 0]>>

InitParseCommon ==
    /\ pc = "parse"
    /\ scan_errors = <<>>
    /\ stmts = <<>>
    /\ parse_errors = <<>>
    /\ result = NoResult
    /\ interp = NewInterpreter
    /\ ip = 0
    /\ runs = 0

InitParse ==
    /\ InitParseCommon
    /\ \/ \E in \in ParseInputs :
            \E scanned \in {scan_all(NewScanner(InputText(in)), <<>>)} :
                /\ scanned.kind = "returned"
                /\ scanned.errors = <<>>
                /\ input = in
                /\ scanner = scanned.s
                /\ parser = [tokens |-> scanned.s.tokens, current |-> 0]
       \/ /\ input = [kind |-> "test_addition", parts |-> <<>>]
          /\ scanner = NewScanner(<<>>)
          /\ parser = [tokens |-> TestAdditionTokens, current |-> 0]

NextParse == ParseDeclaration \/ ParseReturn

SpecParse == InitParse /\ [][NextParse]_vars

(***************************************************************************)
(* Spec: run_prompt (src/src/main.rs) with one interpreter for all the     *)
(* chunks it reads.  A chunk is a line of up to MaxStmts statements of     *)
(* StmtPool; `input.parts` keeps the chunks read so far.                   *)
(***************************************************************************)
StmtPool ==
    {Str(<<"v", "a", "r", " ", "x", "=", "1", ";">>),
     Str(<<"x", "=", "x", "+", "1", ";">>),
     Str(<<"p", "r", "i", "n", "t", " ", "x", ";">>),
     Str(<<"-", "n", "i", "l", ";">>)}

\* the line read_line hands over: the statements and the line break
Line(chunk) == Concat(chunk) \o Str(<<"\n">>)

RECURSIVE StatementsRead(_)
StatementsRead(parts) ==
    IF parts = <<>> THEN 0
    ELSE Len(Head(parts)) + StatementsRead(Tail(parts))

\* the lines the standard input can deliver next: the lines of the script
\* when there is one, else any line of statements of StmtPool that keeps
\* the statements read within MaxStmts
NextChunks ==
    IF input.kind = "script"
    THEN (IF input.rest = <<>> THEN {} ELSE {Head(input.rest)})
    ELSE UNION {[1..n -> StmtPool] :
                  n \in 1..(MaxStmts - StatementsRead(input.parts))}

Init ==
    /\ pc = "prompt"
    /\ scanner = NewScanner(<<>>)
    /\ scan_errors = <<>>
    /\ parser = NoParser
    /\ stmts = <<>>
    /\ parse_errors = <<>>
    /\ result = NoResult
    /\ interp = NewInterpreter
    /\ ip = 0
    /\ runs = 0
    /\ input = [kind |-> "prompt", parts |-> <<>>, rest |-> <<>>]

\* as PromptRead, but each chunk runs on an interpreter of its own
PromptRead_fresh ==
    /\ pc = "prompt"
    /\ runs < MaxRuns
    /\ \E chunk \in NextChunks :
           /\ input' = [input EXCEPT !.parts = Append(@, chunk),
                                     !.rest = IF @ = <<>> THEN @ ELSE Tail(@)]
           /\ scanner' = NewScanner(Line(chunk))
           /\ interp' = [NewInterpreter EXCEPT !.output = interp.output \o
                  <<[by |-> "prompt"], [by |-> "echo", text |-> Line(chunk)]>>]
    /\ scan_errors' = <<>>
    /\ parser' = NoParser
    /\ stmts' = <<>>
    /\ parse_errors' = <<>>
    /\ result' = NoResult
    /\ ip' = 0
    /\ runs' = runs + 1
    /\ pc' = "scan"

\* run_prompt reads a line of more than one byte, echoes it and calls run,
\* which makes the scanner of the line
PromptRead ==
    /\ pc = "prompt"
    /\ runs < MaxRuns
    /\ \E chunk \in NextChunks :
           /\ input' = [input EXCEPT !.parts = Append(@, chunk),
                                     !.rest = IF @ = <<>> THEN @ ELSE Tail(@)]
           /\ scanner' = NewScanner(Line(chunk))
           /\ interp' = [interp EXCEPT !.output = @ \o
                  <<[by |-> "prompt"], [by |-> "echo", text |-> Line(chunk)]>>]
    /\ scan_errors' = <<>>
    /\ parser' = NoParser
    /\ stmts' = <<>>
    /\ parse_errors' = <<>>
    /\ result' = NoResult
    /\ ip' = 0
    /\ runs' = runs + 1
    /\ pc' = "scan"

\* read_line yields at most one byte: run_prompt returns Ok
PromptEof ==
    /\ pc = "prompt"
    /\ interp' = [interp EXCEPT !.output = Append(@, [by |-> "prompt"])]
    /\ pc' = "exit"
    /\ UNCHANGED <<scanner, scan_errors, parser, stmts, parse_errors, result,
                   ip, runs, input>>

\* run after scan_tokens: `?` returns its Err, else the parser is made
RunAfterScan ==
    /\ pc = "scanned"
    /\ IF result.kind = "err"
       THEN pc' = "returned" /\ UNCHANGED <<parser, result>>
       ELSE /\ parser' = [tokens |-> scanner.tokens, current |-> 0]
            /\ result' = NoResult
            /\ pc' = "parse"
    /\ UNCHANGED <<scanner, scan_errors, stmts, parse_errors, interp, ip,
                   runs, input>>

\* run after parse: `?` returns its Err, else interpret starts
RunAfterParse ==
    /\ pc = "parsed"
    /\ IF result.kind = "err"
       THEN pc' = "returned" /\ UNCHANGED result
       ELSE result' = NoResult /\ pc' = "interpret"
    /\ ip' = 0
    /\ UNCHANGED <<scanner, scan_errors, parser, stmts, parse_errors, interp,
                   runs, input>>

\* interpret executes the next statement; its failure ends the run
InterpretStatement ==
    /\ pc = "interpret"
    /\ ip < Len(stmts)
    /\ \E ex \in {execute(stmts[ip + 1], interp, MaxIter)} :
           /\ interp' = ex.it
           /\ ip' = IF ex.kind = "ok" THEN ip + 1 ELSE ip
           /\ result' = IF ex.kind = "err"
                        THEN [kind |-> "err", msgs |-> <<ex.msg>>]
                        ELSE result
           /\ pc' = CASE ex.kind = "ok" -> "interpret"
                      [] ex.kind = "err" -> "returned"
                      [] ex.kind = "panic" -> "panicked"
                      [] ex.kind = "diverged" -> "diverged"
    /\ UNCHANGED <<scanner, scan_errors, parser, stmts, parse_errors, runs,
                   input>>

\* every statement is executed: interpret and run return Ok
InterpretReturn ==
    /\ pc = "interpret"
    /\ ip = Len(stmts)
    /\ result' = [kind |-> "ok", msgs |-> <<>>]
    /\ pc' = "returned"
    /\ UNCHANGED <<scanner, scan_errors, parser, stmts, parse_errors, interp,
                   ip, runs, input>>

\* run_prompt after run: the message of an Err is written, and it loops
PromptAfterRun ==
    /\ pc = "returned"
    /\ interp' = IF result.kind = "err"
                 THEN [interp EXCEPT !.output =
                          Append(@, [by |-> "error", msgs |-> result.msgs])]
                 ELSE interp
    /\ pc' = "prompt"
    /\ UNCHANGED <<scanner, scan_errors, parser, stmts, parse_errors, result,
                   ip, runs, input>>

Next ==
    \/ PromptRead
    \/ PromptEof
    \/ ScanToken
    \/ ScanTokensReturn
    \/ RunAfterScan
    \/ ParseDeclaration
    \/ ParseReturn
    \/ RunAfterParse
    \/ InterpretStatement
    \/ InterpretReturn
    \/ PromptAfterRun

Spec == Init /\ [][Next]_vars

(***************************************************************************)
(* SpecRun: run_prompt on the lines of one script of Scripts, all on the   *)
(* one interpreter.  `input.rest` holds the lines not read yet.            *)
(***************************************************************************)
\* a script: its name, its parameter and its lines, one chunk each
Script(id, n, lines) ==
    [kind |-> "script", id |-> id, n |-> n, parts |-> <<>>,
     rest |-> [i \in 1..Len(lines) |-> <<lines[i]>>]]

\* a block fails after a declaration; the next run declares and reads
BlockScripts ==
    {Script("block_fails", 0,
            <<Str(<<"{", "v", "a", "r", " ", "y", "=", "1", ";", "-", "n",
                    "i", "l", ";", "}">>), Str(<<"v", "a", "r", " ", "x",
                                                 "=", "2", ";", "p", "r",
                                                 "i", "n", "t", " ", "x",
                                                 ";", "p", "r", "i", "n",
                                                 "t", " ", "y", ";">>)>>),
     Script("inner_block_fails", 0,
            <<Str(<<"v", "a", "r", " ", "x", "=", "1", ";", "{", "v", "a",
                    "r", " ", "y", "=", "2", ";", "{", "v", "a", "r", " ",
                    "z", "=", "3", ";", "z", "=", "q", ";", "}", "}">>),
              Str(<<"v", "a", "r", " ", "y", "=", "4", ";", "p", "r", "i",
                    "n", "t", " ", "y", ";", "p", "r", "i", "n", "t", " ",
                    "z", ";">>)>>),
     Script("block_succeeds", 0,
            <<Str(<<"v", "a", "r", " ", "x", "=", "1", ";", "{", "v", "a",
                    "r", " ", "y", "=", "2", ";", "{", "v", "a", "r", " ",
                    "z", "=", "3", ";", "}", "p", "r", "i", "n", "t", " ",
                    "y", ";", "}">>),
              Str(<<"v", "a", "r", " ", "z", "=", "5", ";", "p", "r", "i",
                    "n", "t", " ", "z", ";", "p", "r", "i", "n", "t", " ",
                    "x", ";">>)>>)}

\* a name of the enclosing scope is declared again in a block, once read
\* before the inner declaration and once two blocks deep
ShadowScripts ==
    {Script("shadow", n,
            <<Concat(<<
                Str(<<"v", "a", "r", " ", "x", " ", "=", " ">>),
                NatToString(n),
                Str(<<";", " ", "{", " ", "v", "a", "r", " ", "x", " ", "=",
                      " ">>),
                NatToString(n + 1),
                Str(<<";", " ", "p", "r", "i", "n", "t", " ", "x", ";", " ",
                      "}", " ", "p", "r", "i", "n", "t", " ", "x", ";">>)>>),
              Concat(<<
                Str(<<"{", "p", "r", "i", "n", "t", " ", "x", ";", "v", "a",
                      "r", " ", "x", "=">>),
                NatToString(n + 1),
                Str(<<";", "{", "v", "a", "r", " ", "x", "=", "7", ";", "p",
                      "r", "i", "n", "t", " ", "x", ";", "}", "p", "r", "i",
                      "n", "t", " ", "x", ";", "}">>)>>)>>) :
       n \in 0..MaxLit}

\* a name declared only in a block is read after the block: in the same
\* run, in the next run, and after a nested block
EscapeScripts ==
    {Script("escape", 0,
            <<Str(<<"{", " ", "v", "a", "r", " ", "x", " ", "=", " ", "1",
                    ";", " ", "}", " ", "p", "r", "i", "n", "t", " ", "x",
                    ";">>),
              Str(<<"p", "r", "i", "n", "t", " ", "x", ";">>)>>),
     Script("escape_nested", 0,
            <<Str(<<"v", "a", "r", " ", "y", "=", "1", ";", "{", "v", "a",
                    "r", " ", "x", "=", "1", ";", "{", "v", "a", "r", " ",
                    "z", "=", "2", ";", "p", "r", "i", "n", "t", " ", "x",
                    ";", "}", "p", "r", "i", "n", "t", " ", "z", ";", "}">>),
              Str(<<"p", "r", "i", "n", "t", " ", "y", ";", "p", "r", "i",
                    "n", "t", " ", "x", ";">>)>>)}

\* the counting loop up to n, then the loop again followed by a read of i
ForScripts ==
    {Script("for", n,
            <<Concat(<<
                Str(<<"f", "o", "r", " ", "(", "v", "a", "r", " ", "i", " ",
                      "=", " ", "0", ";", " ", "i", " ", "<", " ">>),
                NatToString(n),
                Str(<<";", " ", "i", " ", "=", " ", "i", " ", "+", " ", "1",
                      ")", " ", "p", "r", "i", "n", "t", " ", "i", ";">>)>>),
              Concat(<<
                Str(<<"f", "o", "r", "(", "v", "a", "r", " ", "i", "=", "0",
                      ";", "i", "<">>),
                NatToString(n),
                Str(<<";", "i", "=", "i", "+", "1", ")", "p", "r", "i", "n",
                      "t", " ", "i", ";", "p", "r", "i", "n", "t", " ", "i",
                      ";">>)>>)>>) :
       n \in 0..MaxIter}

\* assignments: to a root name, to the nearest of two bindings from two
\* blocks deep, and to a name no scope binds
AssignScripts ==
    {Script("assign", n,
            <<Concat(<<
                Str(<<"v", "a", "r", " ", "x", " ", "=", " ", "1", "0", ";",
                      " ", "x", " ", "=", " ", "x", " ", "+", " ">>),
                NatToString(n),
                Str(<<";", " ", "p", "r", "i", "n", "t", " ", "x", ";">>)>>),
              Concat(<<
                Str(<<"p", "r", "i", "n", "t", " ", "x", " ", "=", " ">>),
                NatToString(n),
                Str(<<";", " ", "p", "r", "i", "n", "t", " ", "x", ";">>)>>)>>) :
       n \in 0..MaxLit \cup {5}}
      \cup
    {Script("assign_nearest", 0,
            <<Str(<<"v", "a", "r", " ", "x", "=", "1", ";", "v", "a", "r",
                    " ", "y", "=", "2", ";", "{", "v", "a", "r", " ", "x",
                    "=", "3", ";", "{", "x", "=", "4", ";", "y", "=", "5",
                    ";", "p", "r", "i", "n", "t", " ", "x", ";", "}", "p",
                    "r", "i", "n", "t", " ", "x", ";", "}">>),
              Str(<<"p", "r", "i", "n", "t", " ", "x", ";", "p", "r", "i",
                    "n", "t", " ", "y", ";">>)>>),
     Script("assign_undeclared", 0,
            <<Str(<<"v", "a", "r", " ", "x", "=", "1", ";", "{", "v", "a",
                    "r", " ", "y", "=", "2", ";", "z", "=", "3", ";", "p",
                    "r", "i", "n", "t", " ", "y", ";", "}">>),
              Str(<<"p", "r", "i", "n", "t", " ", "x", ";", "p", "r", "i",
                    "n", "t", " ", "z", ";">>)>>)}

\* chunks with one lexical or syntax error before, after or between
\* well-formed statements, followed by a read of x in the next run; n is 1
\* for the errors that are a non-ASCII character or a `%` where an
\* expression must start
GoodParts ==
    {<<>>,
     Str(<<"v", "a", "r", " ", "x", "=", "1", ";", "p", "r", "i", "n", "t",
           " ", "x", ";">>)}
LexicalErrorParts ==
    {Str(<<"@">>),
     Str(<<"\"", "a">>)}
SyntaxErrorParts ==
    {Str(<<"1", "+", ";">>),
     Str(<<"v", "a", "r", ";">>),
     Str(<<"(", "1", ";">>),
     Str(<<"1", "=", "2", ";">>)}
CrashingErrorParts ==
    {Str(<<"e-acute">>),
     Str(<<"%", ";">>)}
ErrorScripts ==
    {Script("error_chunk", IF err \in CrashingErrorParts THEN 1 ELSE 0,
            <<Concat(<<pre, err, post>>),
              Str(<<"p", "r", "i", "n", "t", " ", "x", ";">>)>>) :
       pre \in GoodParts, post \in GoodParts,
       err \in LexicalErrorParts \cup SyntaxErrorParts
                 \cup CrashingErrorParts}

Scripts ==
    BlockScripts \cup ShadowScripts \cup EscapeScripts \cup ForScripts
      \cup AssignScripts \cup ErrorScripts

InitRun ==
    /\ pc = "prompt"
    /\ scanner = NewScanner(<<>>)
    /\ scan_errors = <<>>
    /\ parser = NoParser
    /\ stmts = <<>>
    /\ parse_errors = <<>>
    /\ result = NoResult
    /\ interp = NewInterpreter
    /\ ip = 0
    /\ runs = 0
    /\ input \in Scripts

SpecRun == InitRun /\ [][Next]_vars

(***************************************************************************)
(* SpecScope: the scope chain while blocks are executed step by step.  A   *)
(* block is entered (enter_block), statements are executed in the current  *)
(* scope, and the block is left (leave_block) by success or, after a       *)
(* statement has failed, by failure, up to the top level, where the        *)
(* failure is reported and the interpreter is used again.  `input.before`  *)
(* holds the interpreter state each block being executed was entered from. *)
(***************************************************************************)
ScopeToken ==
    [token_type |-> "Identifier", lexeme |-> Str(<<"x">>), literal |-> None,
     line_number |-> 1]

\* the value written from the scope at depth `current`
ScopeValue(it) == Literal(NumberValue(Num(it.current)))

\* the statements executed in the current scope: `var x = d;`, `x = d;`,
\* a whole inner block `{ var x = d; x = d; }` and the failing `-nil;`
ScopeStmts(it) ==
    {VarStmt(ScopeToken, ScopeValue(it)),
     ExpressionStmt(Assign(ScopeToken, ScopeValue(it))),
     BlockStmt(<<VarStmt(ScopeToken, ScopeValue(it)),
                 ExpressionStmt(Assign(ScopeToken, ScopeValue(it)))>>),
     ExpressionStmt(Unary([token_type |-> "Minus", lexeme |-> Str(<<"-">>),
                           literal |-> None, line_number |-> 1],
                          Literal(NilValue)))}

InitScope ==
    /\ pc = "block"
    /\ scanner = NewScanner(<<>>)
    /\ scan_errors = <<>>
    /\ parser = NoParser
    /\ stmts = <<>>
    /\ parse_errors = <<>>
    /\ result = NoResult
    /\ interp = NewInterpreter
    /\ ip = 0
    /\ runs = 0
    /\ input = [kind |-> "blocks", before |-> <<>>]

\* execution enters a block: one new scope under the current one
EnterBlock ==
    /\ pc = "block"
    /\ Len(input.before) < MaxDepth
    /\ interp' = enter_block(interp)
    /\ input' = [input EXCEPT !.before = Append(@, interp)]
    /\ UNCHANGED <<pc, scanner, scan_errors, parser, stmts, parse_errors,
                   result, ip, runs>>

\* one statement of the block is executed in the current scope
ExecuteInScope ==
    /\ pc = "block"
    /\ \E s \in ScopeStmts(interp) :
           \E ex \in {execute(s, interp, MaxIter)} :
               /\ interp' = ex.it
               /\ pc' = IF ex.kind = "ok" THEN "block" ELSE "failing"
    /\ UNCHANGED <<scanner, scan_errors, parser, stmts, parse_errors, result,
                   ip, runs, input>>

\* execution leaves the innermost block, at its end or on a failure
LeaveBlock ==
    /\ pc \in {"block", "failing"}
    /\ input.before # <<>>
    /\ interp' = leave_block(input.before[Len(input.before)],
                             [kind |-> IF pc = "failing" THEN "err"
                                       ELSE "ok",
                              it |-> interp, msg |-> <<>>]).it
    /\ input' = [input EXCEPT
                   !.before = SubSeq(@, 1, Len(input.before) - 1)]
    /\ UNCHANGED <<pc, scanner, scan_errors, parser, stmts, parse_errors,
                   result, ip, runs>>

\* the failure has reached the top level; the interpreter is used again
FailureReported ==
    /\ pc = "failing"
    /\ input.before = <<>>
    /\ pc' = "block"
    /\ UNCHANGED <<scanner, scan_errors, parser, stmts, parse_errors, result,
                   interp, ip, runs, input>>

NextScope == EnterBlock \/ ExecuteInScope \/ LeaveBlock \/ FailureReported

SpecScope == InitScope /\ [][NextScope]_vars

(***************************************************************************)
(* SpecEval: Expr::evaluate on one binary expression of two literals, for  *)
(* every operator and every pair of EvalValues; on one unary expression of *)
(* a literal; and on one logical expression whose operands are literals,   *)
(* assignments to x, reads of x or a failing negation, with x declared.    *)
(***************************************************************************)
EvalValues ==
    {NumberValue(Num(n)) : n \in 0..MaxLit}
        \cup {NumberValue(Rat(3, 2)), StringValue(<<>>),
              StringValue(Str(<<"a">>)), StringValue(Str(<<"1">>)),
              TrueValue, FalseValue, NilValue}

\* the token types the parser puts in a Binary node, and one it does not
BinaryOperators ==
    ArithmeticOps \cup OrderOps \cup {"BangEqual", "EqualEqual", "Comma"}

\* the token types the parser puts in a Unary node
UnaryOperators == {"Bang", "Minus"}

\* the token types the parser puts in a Logical node
LogicalOperators == {"Or", "And"}

\* an operator token, and the identifier x
EvalToken(token_type) ==
    [token_type |-> token_type, lexeme |-> <<>>, literal |-> None,
     line_number |-> 1]

EvalName ==
    [token_type |-> "Identifier", lexeme |-> Str(<<"x">>), literal |-> None,
     line_number |-> 1]

\* `-nil`, which fails
FailingExpr == Unary(EvalToken("Minus"), Literal(NilValue))

\* left operands: a literal, or an assignment of it to x
LogicalLefts ==
    {Literal(v) : v \in EvalValues}
        \cup {Assign(EvalName, Literal(v)) : v \in EvalValues}

\* right operands: a literal, a read of x, an assignment to x, a failure
LogicalRights ==
    {Literal(TrueValue), Literal(StringValue(<<>>)), Variable(EvalName),
     Assign(EvalName, Literal(NumberValue(Num(MaxLit)))), FailingExpr}

InitEval ==
    /\ pc = "evaluate"
    /\ scanner = NewScanner(<<>>)
    /\ scan_errors = <<>>
    /\ parser = NoParser
    /\ stmts = <<>>
    /\ parse_errors = <<>>
    /\ result = NoResult
    /\ ip = 0
    /\ runs = 0
    /\ \/ /\ \E left \in EvalValues, operator \in BinaryOperators,
                right \in EvalValues :
                 input = [kind |-> "binary", left |-> left,
                          operator |-> operator, right |-> right]
          /\ interp = NewInterpreter
       \/ /\ \E operator \in UnaryOperators, right \in EvalValues :
                 input = [kind |-> "unary", operator |-> operator,
                          operand |-> right,
                          expr |-> Unary(EvalToken(operator), Literal(right))]
          /\ interp = NewInterpreter
       \/ /\ \E operator \in LogicalOperators, lhs \in LogicalLefts,
                rhs \in LogicalRights :
                 input = [kind |-> "logical", operator |-> operator,
                          lhs |-> lhs, rhs |-> rhs,
                          expr |-> Logical(lhs, EvalToken(operator), rhs)]
          /\ interp = define(NewInterpreter, EvalName.lexeme,
                             NumberValue(Num(0)))

\* evaluate on Binary(Literal(left), operator, Literal(right))
EvaluateBinary ==
    /\ pc = "evaluate"
    /\ input.kind = "binary"
    /\ \E ev \in {evaluate(Binary(Literal(input.left),
                                  [token_type |-> input.operator,
                                   lexeme |-> <<>>, literal |-> None,
                                   line_number |-> 1],
                                  Literal(input.right)), interp)} :
           /\ result' = IF ev.kind = "ok"
                        THEN [kind |-> "ok", value |-> ev.val]
                        ELSE [kind |-> ev.kind, msgs |-> <<ev.msg>>]
           /\ interp' = ev.it
    /\ pc' = "evaluated"
    /\ UNCHANGED <<scanner, scan_errors, parser, stmts, parse_errors, ip,
                   runs, input>>

\* evaluate on the unary or logical expression of the input
EvaluateExpr ==
    /\ pc = "evaluate"
    /\ input.kind \in {"unary", "logical"}
    /\ \E ev \in {evaluate(input.expr, interp)} :
           /\ result' = IF ev.kind = "ok"
                        THEN [kind |-> "ok", value |-> ev.val]
                        ELSE [kind |-> ev.kind, msgs |-> <<ev.msg>>]
           /\ interp' = ev.it
    /\ pc' = "evaluated"
    /\ UNCHANGED <<scanner, scan_errors, parser, stmts, parse_errors, ip,
                   runs, input>>

NextEval == EvaluateBinary \/ EvaluateExpr

SpecEval == InitEval /\ [][NextEval]_vars

(***************************************************************************)
(* Claims about the scanner, checked under SpecScan.                       *)
(***************************************************************************)
Count(seq, P(_)) == Cardinality({i \in 1..Len(seq) : P(seq[i])})

IsEof(tok) == tok.token_type = "Eof"

Contains(text, ch) == \E i \in 1..Len(text) : text[i] = ch

\* C1: once scan_tokens has returned, Ok or Err, the token list holds
\* exactly one Eof token and it is the last element, however many lexical
\* errors were met.
C1_EofOnceAndLast ==
    pc = "scanned" =>
        /\ Len(scanner.tokens) >= 1
        /\ IsEof(scanner.tokens[Len(scanner.tokens)])
        /\ Count(scanner.tokens, IsEof) = 1

\* scan_tokens returned Err after two lexical errors, with tokens scanned
C1_Witness ==
    /\ pc = "scanned"
    /\ result.kind = "err"
    /\ Len(scan_errors) >= 2
    /\ Len(scanner.tokens) >= 2

\* The characters the scanner's grammar knows: punctuation, operators,
\* whitespace, the quote, digits, letters and the underscore.
IsKnownChar(ch) ==
    \/ ch \in DOMAIN SingleCharTokens
    \/ ch \in {Ascii["!"], Ascii["="], Ascii["<"], Ascii[">"], Ascii["/"],
               Ascii[" "], 13, 9, Ascii["\n"], Ascii["\""], Ascii["_"]}
    \/ ch >= Ascii["0"] /\ ch <= Ascii["9"]
    \/ ch >= Ascii["a"] /\ ch <= Ascii["z"]
    \/ ch >= Ascii["A"] /\ ch <= Ascii["Z"]

IsOtherChar(ch) == ~IsKnownChar(ch)

IsUnrecognized(msg) == msg[1] = "Unrecognized char at line"

UnrecognizedChars(errors) ==
    LET sel == SelectSeq(errors, IsUnrecognized)
    IN  [i \in 1..Len(sel) |-> sel[i][3]]

\* a text in which no character stands inside a string or a comment
PlainText(text) == ~Contains(text, Ascii["\""]) /\ ~Contains(text, Ascii["/"])

\* C4: every character outside the scanner's grammar, non-ASCII ones
\* included, gets one "unrecognized character" error and the scan goes on
\* to the Eof token: the scanner does not crash, and when it has returned
\* the unrecognized-character errors are those characters, in order (none
\* was taken for a digit or a letter).
C4_OtherCharsAreErrors ==
    PlainText(scanner.source) =>
        /\ pc # "panicked"
        /\ pc = "scanned" =>
              /\ UnrecognizedChars(scan_errors)
                     = SelectSeq(scanner.source, IsOtherChar)
              /\ IsEof(scanner.tokens[Len(scanner.tokens)])

\* the text with every character outside the grammar replaced by a space
Blanked(text) ==
    [i \in 1..Len(text) |->
        IF IsOtherChar(text[i]) THEN Ascii[" "] ELSE text[i]]

TokenTypes(tokens) == [i \in 1..Len(tokens) |-> tokens[i].token_type]

OddQuotes(text) ==
    Cardinality({i \in 1..Len(text) : text[i] = Ascii["\""]}) % 2 = 1

\* C9: lexical errors are accumulated. The scan never stops at an error;
\* when it has returned, the report holds one message per error, the
\* tokens are those of the text with its unrecognized characters blanked
\* (every token after such a character is produced), and a text left
\* inside a string reports "Unterminated string" before an Eof token.
C9_ErrorsAccumulated ==
    /\ pc # "panicked"
    /\ pc = "scanned" =>
          /\ result.kind = "err" <=> scan_errors # <<>>
          /\ result.msgs = scan_errors
          /\ Len(SelectSeq(scan_errors, IsUnrecognized))
                 >= Len(SelectSeq(scanner.source, IsOtherChar))
                 \/ ~PlainText(scanner.source)
          /\ PlainText(scanner.source) =>
                TokenTypes(scanner.tokens)
                  = TokenTypes(scan_all(NewScanner(Blanked(scanner.source)),
                                        <<>>).s.tokens)
          /\ (OddQuotes(scanner.source)
                /\ ~Contains(scanner.source, Ascii["/"])) =>
                /\ <<"Unterminated string">> \in
                       {scan_errors[i] : i \in 1..Len(scan_errors)}
                /\ IsEof(scanner.tokens[Len(scanner.tokens)])


(***************************************************************************)
(* Claims about the parser, checked under SpecParse.                       *)
(***************************************************************************)
\* the token vector is one the scanner can produce: it ends with Eof
EndsWithEof(tokens) == tokens # <<>> /\ IsEof(tokens[Len(tokens)])

\* C3: on every token vector that ends with Eof, parse returns Ok or Err
\* and never panics, whichever token stands where a primary is expected.
C3_ParseNeverPanics ==
    EndsWithEof(parser.tokens) => pc # "panicked"

\* C5: parse on the four tokens of test_addition (1, +, 2, ; and no Eof)
\* returns Ok with the statement list: no error and no panic.
C5_TestAdditionOk ==
    input.kind = "test_addition" =>
        /\ pc # "panicked"
        /\ pc = "parsed" => result.kind = "ok" /\ Len(stmts) = 1

\* an operator token as the scanner makes it on the first line
OperatorToken(token_type, lexeme) ==
    [token_type |-> token_type, lexeme |-> lexeme, literal |-> None,
     line_number |-> 1]

NumberNode(text) == Literal(NumberValue(ParseF64(text)))

PlusNode(a, b) ==
    Binary(NumberNode(a), OperatorToken("Plus", Str(<<"+">>)), NumberNode(b))

EqualEqualToken == OperatorToken("EqualEqual", Str(<<"=", "=">>))

\* `(+ a b)`
PlusPrinted(a, b) ==
    Str(<<"(", "+", " ">>) \o a \o Str(<<" ">>) \o b \o Str(<<")">>)

EqualityTree(a, b, c, d) ==
    ExpressionStmt(Binary(PlusNode(a, b), EqualEqualToken, PlusNode(c, d)))

\* `(== (+ a b) (+ c d))`
EqualityPrinted(a, b, c, d) ==
    Str(<<"(", "=", "=", " ">>) \o PlusPrinted(a, b) \o Str(<<" ">>)
        \o PlusPrinted(c, d) \o Str(<<")">>)

\* C6: equality binds looser than term: for all number literals a, b, c, d
\* scanning and parsing `a + b == c + d;` yields exactly one expression
\* statement, Binary(==, Binary(+, a, b), Binary(+, c, d)), printed as
\* `(== (+ a b) (+ c d))`, and parse returns Ok.
C6_EqualityLooserThanTerm ==
    input.kind = "equality" =>
        /\ pc # "panicked"
        /\ parse_errors = <<>>
        /\ (pc = "parsed" \/ stmts # <<>>) =>
              /\ stmts = <<EqualityTree(input.parts[1], input.parts[2],
                                        input.parts[3], input.parts[4])>>
              /\ stmt_to_string(stmts[1])
                     = EqualityPrinted(input.parts[1], input.parts[2],
                                       input.parts[3], input.parts[4])
        /\ pc = "parsed" => result.kind = "ok"

C6_Witness ==
    /\ input.kind = "equality"
    /\ pc = "parsed"
    /\ input.parts = <<Str(<<"1">>), Str(<<"2">>), Str(<<"1", ".", "5">>),
                       Str(<<"1", "2">>)>>
    /\ Len(stmts) = 1
    /\ stmts[1].expression.operator.token_type = "EqualEqual"

\* `(== a (group (+ b c)))`
GroupPrinted(a, b, c) ==
    Str(<<"(", "=", "=", " ">>) \o a
        \o Str(<<" ", "(", "g", "r", "o", "u", "p", " ">>)
        \o PlusPrinted(b, c) \o Str(<<")", ")">>)

\* C7: a parenthesised sub-expression is kept as its own Grouping node and
\* overrides precedence: for all number literals a, b, c, parsing
\* `a == (b + c);` yields exactly one statement,
\* Binary(==, a, Grouping(Binary(+, b, c))), printed as
\* `(== a (group (+ b c)))`.
C7_GroupingKept ==
    input.kind = "group" =>
        /\ pc # "panicked"
        /\ parse_errors = <<>>
        /\ (pc = "parsed" \/ stmts # <<>>) =>
              /\ Len(stmts) = 1
              /\ stmts[1].type = "Expression"
              /\ stmts[1].expression.type = "Binary"
              /\ stmts[1].expression.operator = EqualEqualToken
              /\ stmts[1].expression.left = NumberNode(input.parts[1])
              /\ stmts[1].expression.right.type = "Grouping"
              /\ stmts[1].expression.right.expression
                     = PlusNode(input.parts[2], input.parts[3])
              /\ stmt_to_string(stmts[1])
                     = GroupPrinted(input.parts[1], input.parts[2],
                                    input.parts[3])
        /\ pc = "parsed" => result.kind = "ok"

C7_Witness ==
    /\ input.kind = "group"
    /\ pc = "parsed"
    /\ input.parts = <<Str(<<"1">>), Str(<<"2">>), Str(<<"2">>)>>
    /\ Len(stmts) = 1
    /\ stmts[1].expression.right.type = "Grouping"

\* the erroneous statements among the parts of a program, in order
RECURSIVE ErrParts(_)
ErrParts(parts) ==
    IF parts = <<>> THEN <<>>
    ELSE IF Head(parts) \in ErrStmts
         THEN <<Head(parts)>> \o ErrParts(Tail(parts))
         ELSE ErrParts(Tail(parts))

\* the report with one message for each erroneous statement
FullReport(parts) ==
    [k \in 1..Len(ErrParts(parts)) |-> ErrStmtMessage(ErrParts(parts)[k])]

OwnSemicolons(parts) ==
    \A i \in 1..Len(parts) : parts[i] \in ErrStmtsOpen => i = Len(parts)

IdentifierToken(name) ==
    [token_type |-> "Identifier", lexeme |-> name, literal |-> None,
     line_number |-> 1]

IVariable == Variable(IdentifierToken(Str(<<"i">>)))

\* the nodes of the clauses of the inputs, NoStmt for an absent one
ForInitNode(text) ==
    CASE text = Str(<<";">>) ->
             NoStmt
      [] text = Str(<<"v", "a", "r", " ", "i", "=", "0", ";">>) ->
             VarStmt(IdentifierToken(Str(<<"i">>)), NumberNode(Str(<<"0">>)))
      [] text = Str(<<"i", "=", "0", ";">>) ->
             ExpressionStmt(Assign(IdentifierToken(Str(<<"i">>)), NumberNode(Str(<<"0">>))))

ForConditionNode(text) ==
    IF text = <<>> THEN NoStmt
    ELSE Binary(IVariable, OperatorToken("Less", Str(<<"<">>)), NumberNode(Str(<<"2">>)))

ForIncrementNode(text) ==
    IF text = <<>> THEN NoStmt
    ELSE Assign(IdentifierToken(Str(<<"i">>)),
                Binary(IVariable, OperatorToken("Plus", Str(<<"+">>)),
                       NumberNode(Str(<<"1">>))))

ForBodyNode(text) ==
    IF text = Str(<<"p", "r", "i", "n", "t", " ", "i", ";">>)
    THEN PrintStmt(IVariable)
    ELSE BlockStmt(<<PrintStmt(IVariable)>>)

\* the loop of the desugaring: While(cond, body) or, with an increment,
\* While(cond, Block[body, Expression(incr)]); Literal(True) for no cond
ForLoop(cond, incr, body) ==
    WhileStmt(IF cond = NoStmt THEN Literal(TrueValue) ELSE cond,
              IF incr = NoStmt THEN body
              ELSE BlockStmt(<<body, ExpressionStmt(incr)>>))

ForTree(init, cond, incr, body) ==
    IF init = NoStmt THEN ForLoop(cond, incr, body)
    ELSE BlockStmt(<<init, ForLoop(cond, incr, body)>>)

\* the types of the nodes of a statement
RECURSIVE StmtTypes(_)
StmtTypes(s) ==
    {s.type} \cup
        CASE s.type = "Block" ->
                 UNION {StmtTypes(s.statements[i]) :
                          i \in 1..Len(s.statements)}
          [] s.type = "WhileStmt" -> StmtTypes(s.body)
          [] s.type = "IfStmt" -> StmtTypes(s.then) \cup StmtTypes(s.els)
          [] OTHER -> {}

\* C18: `for (init; cond; incr) body` is parsed into exactly
\* While(cond, body), with Block[body, Expression(incr)] for the body when
\* there is an increment and Literal(True) for the condition when there is
\* none, wrapped as Block[init, While] when there is an initializer (a var
\* declaration or an expression statement) and bare otherwise; parse
\* returns Ok with that one statement, and no node of another kind than
\* Expression, Print, Var, Block, IfStmt and WhileStmt is ever produced.
C18_ForDesugared ==
    /\ \A i \in 1..Len(stmts) :
           StmtTypes(stmts[i]) \subseteq
               {"Expression", "Print", "Var", "Block", "IfStmt", "WhileStmt",
                "None"}
    /\ input.kind = "for" =>
           /\ pc # "panicked"
           /\ parse_errors = <<>>
           /\ (pc = "parsed" \/ stmts # <<>>) =>
                  stmts = <<ForTree(ForInitNode(input.parts[1]),
                                    ForConditionNode(input.parts[2]),
                                    ForIncrementNode(input.parts[3]),
                                    ForBodyNode(input.parts[4]))>>
           /\ pc = "parsed" => result.kind = "ok"

\* `for(var i=0;i<2;i=i+1)print i;` has been parsed into
\* Block[Var, While(i < 2, Block[Print, Expression(i = i + 1)])]
C18_Witness ==
    /\ input.kind = "for"
    /\ pc = "parsed"
    /\ input.parts = <<Str(<<"v", "a", "r", " ", "i", "=", "0", ";">>),
                       Str(<<"i", "<", "2">>),
                       Str(<<"i", "=", "i", "+", "1">>),
                       Str(<<"p", "r", "i", "n", "t", " ", "i", ";">>)>>
    /\ result.kind = "ok"
    /\ Len(stmts) = 1
    /\ stmts[1].type = "Block"
    /\ stmts[1].statements[2].type = "WhileStmt"
    /\ stmts[1].statements[2].body.type = "Block"

\* `for(;;)print i;` has been parsed into While(true, Print)
C18_WitnessBare ==
    /\ input.kind = "for"
    /\ pc = "parsed"
    /\ stmts = <<WhileStmt(Literal(TrueValue), PrintStmt(IVariable))>>

\* the text of a target is a bare variable
IsVariableText(text) ==
    text \in {Str(<<"a">>),
              Str(<<"b">>)}

\* C20: assignment is right-associative and only a Variable is a target.
\* For targets t1, t2 among a, b, 1, (a) and a + b and every number
\* literal e, `t1 = t2 = e;` is parsed into the one statement
\* Expression(Assign(t1, Assign(t2, e))) with Ok when t1 and t2 are both
\* variables; when either is a literal, a grouping or a binary expression
\* the statement fails with the one message "Invalid assignment target."
\* and no statement, so no Assign node, is produced.
C20_AssignmentRightAssociative ==
    input.kind = "assignment" =>
        /\ pc # "panicked"
        /\ (IsVariableText(input.parts[1]) /\ IsVariableText(input.parts[2]))
             => /\ parse_errors = <<>>
                /\ (pc = "parsed" \/ stmts # <<>>) =>
                       stmts = <<ExpressionStmt(
                                   Assign(IdentifierToken(input.parts[1]),
                                          Assign(IdentifierToken(
                                                     input.parts[2]),
                                                 NumberNode(
                                                     input.parts[3]))))>>
                /\ pc = "parsed" => result.kind = "ok"
        /\ ~(IsVariableText(input.parts[1]) /\ IsVariableText(input.parts[2]))
             => /\ stmts = <<>>
                /\ parse_errors \in {<<>>, <<"Invalid assignment target.">>}
                /\ pc = "parsed" =>
                       result = [kind |-> "err",
                                 msgs |-> <<"Invalid assignment target.">>]

\* `a = b = 1;` has been parsed into Assign(a, Assign(b, 1))
C20_Witness ==
    /\ input.kind = "assignment"
    /\ pc = "parsed"
    /\ input.parts = <<Str(<<"a">>),
                       Str(<<"b">>),
                       Str(<<"1">>)>>
    /\ result.kind = "ok"
    /\ Len(stmts) = 1
    /\ stmts[1].expression.type = "Assign"
    /\ stmts[1].expression.value.type = "Assign"

\* `(a) = b = 1;` has failed with the invalid-assignment-target error
C20_WitnessInvalid ==
    /\ input.kind = "assignment"
    /\ pc = "parsed"
    /\ input.parts[1] = Str(<<"(", "a", ")">>)
    /\ IsVariableText(input.parts[2])
    /\ result.kind = "err"
    /\ stmts = <<>>

(***************************************************************************)
(* Claims about the evaluator, checked under SpecEval.                     *)
(***************************************************************************)
\* two runtime values are the same value: same kind and same payload
SameValue(x, y) ==
    /\ x.kind = y.kind
    /\ x.kind = "Number" => x.n = y.n
    /\ x.kind = "StringValue" => x.s = y.s

\* C2: `==` and `!=` on any pair of runtime values never fail: values of
\* the same kind compare structurally, values of different kinds (a Text
\* with a Number too, in either order) give False for == and True for !=.
C2_EqualityNeverFails ==
    (pc = "evaluated" /\ input.operator \in {"EqualEqual", "BangEqual"}) =>
        /\ result.kind = "ok"
        /\ result.value =
               IF SameValue(input.left, input.right)
                      = (input.operator = "EqualEqual")
               THEN TrueValue ELSE FalseValue

\* the falsy values: Number 0, the empty Text, False and Nil
Falsy(v) ==
    \/ v.kind = "Number" /\ v.n = Num(0)
    \/ v.kind = "StringValue" /\ v.s = <<>>
    \/ v.kind \in {"False", "Nil"}

\* the runtime values at hand in a state: the literal operands of the
\* expression and, after the evaluation, its value (NaN and the infinities
\* among them, from 0 / 0 and 1 / 0)
ValuesAtHand ==
    (IF input.kind = "binary" THEN {input.left, input.right}
     ELSE IF input.kind = "unary" THEN {input.operand}
     ELSE {})
        \cup (IF pc = "evaluated" /\ result.kind = "ok" THEN {result.value}
              ELSE {})

\* C16: for every runtime value v exactly one of is_truthy(v) and
\* is_falsy(v) is True and the other is False, and neither fails; is_falsy
\* is True exactly on Number 0, the empty Text, False and Nil, so that 0
\* is the only falsy Number.  `!v`, which is is_falsy(v), always succeeds
\* with True on those four values and False on every other.
C16_TruthyFalsyComplementary ==
    /\ \A v \in ValuesAtHand :
           /\ is_truthy(v) \in {TrueValue, FalseValue}
           /\ is_falsy(v) \in {TrueValue, FalseValue}
           /\ is_truthy(v) # is_falsy(v)
           /\ (is_falsy(v) = TrueValue) = Falsy(v)
    /\ (pc = "evaluated" /\ input.kind = "unary" /\ input.operator = "Bang")
           => /\ result.kind = "ok"
              /\ result.value =
                     IF Falsy(input.operand) THEN TrueValue ELSE FalseValue

\* `!""` has been evaluated to True, and the truthy-conversion of the empty
\* Text is False
C16_Witness ==
    /\ pc = "evaluated"
    /\ input.kind = "unary"
    /\ input.operator = "Bang"
    /\ input.operand = StringValue(<<>>)
    /\ result = [kind |-> "ok", value |-> TrueValue]
    /\ is_truthy(input.operand) = FalseValue

\* a division has yielded NaN, which is truthy
C16_WitnessNaN ==
    /\ pc = "evaluated"
    /\ input.kind = "binary"
    /\ result.kind = "ok"
    /\ result.value.kind = "Number"
    /\ IsNaN(result.value.n)
    /\ is_truthy(result.value) = TrueValue

\* one operand is a Text and the other a Number
TextWithNumber(x, y) ==
    \/ x.kind = "StringValue" /\ y.kind = "Number"
    \/ x.kind = "Number" /\ y.kind = "StringValue"

\* C17: every arithmetic operator (+ - * / %) and every ordering operator
\* (< <= > >=) on a Text and a Number, in either order, fails with the
\* message that the operator is not defined for string and numbers, and
\* evaluates nothing else; `+` on two Texts succeeds and yields their
\* concatenation, the left operand first.
C17_TextNumberMismatch ==
    (pc = "evaluated" /\ input.kind = "binary") =>
        /\ (TextWithNumber(input.left, input.right)
              /\ input.operator \in ArithmeticOps \cup OrderOps) =>
               /\ result.kind = "err"
               /\ result.msgs = <<<<"is not defined for string and numbers",
                                    input.operator>>>>
        /\ (input.left.kind = "StringValue"
              /\ input.right.kind = "StringValue"
              /\ input.operator = "Plus") =>
               /\ result.kind = "ok"
               /\ result.value.kind = "StringValue"
               /\ Len(result.value.s) =
                      Len(input.left.s) + Len(input.right.s)
               /\ SubSeq(result.value.s, 1, Len(input.left.s)) = input.left.s
               /\ SubSeq(result.value.s, Len(input.left.s) + 1,
                         Len(result.value.s)) = input.right.s
        /\ interp = NewInterpreter

\* `"a" + 1` has failed
C17_Witness ==
    /\ pc = "evaluated"
    /\ input.kind = "binary"
    /\ input.left = StringValue(Str(<<"a">>))
    /\ input.operator = "Plus"
    /\ input.right = NumberValue(Num(1))
    /\ result.kind = "err"

\* `"a" + "1"` has yielded the Text a1
C17_WitnessConcatenation ==
    /\ pc = "evaluated"
    /\ input.kind = "binary"
    /\ input.left = StringValue(Str(<<"a">>))
    /\ input.operator = "Plus"
    /\ input.right = StringValue(Str(<<"1">>))
    /\ result = [kind |-> "ok", value |-> StringValue(Str(<<"a", "1">>))]

\* the value of a left operand of the model, and x after its evaluation
LeftValue(lhs) == IF lhs.type = "Assign" THEN lhs.value.value ELSE lhs.value
XAfterLeft(lhs) ==
    IF lhs.type = "Assign" THEN lhs.value.value ELSE NumberValue(Num(0))

\* the left operand decides: truthy for `or`, falsy for `and`
ShortCircuits(operator, lhs) ==
    \/ operator = "Or" /\ ~Falsy(LeftValue(lhs))
    \/ operator = "And" /\ Falsy(LeftValue(lhs))

\* what the evaluation of l op r must give: the result and the value of x
LogicalExpected(operator, lhs, rhs) ==
    IF ShortCircuits(operator, lhs)
    THEN [result |-> [kind |-> "ok",
                      value |-> IF operator = "Or" THEN LeftValue(lhs)
                                ELSE FalseValue],
          x |-> XAfterLeft(lhs)]
    ELSE CASE rhs.type = "Literal" ->
                  [result |-> [kind |-> "ok", value |-> rhs.value],
                   x |-> XAfterLeft(lhs)]
           [] rhs.type = "Variable" ->
                  [result |-> [kind |-> "ok", value |-> XAfterLeft(lhs)],
                   x |-> XAfterLeft(lhs)]
           [] rhs.type = "Assign" ->
                  [result |-> [kind |-> "ok", value |-> rhs.value.value],
                   x |-> rhs.value.value]
           [] rhs.type = "Unary" ->
                  [result |-> [kind |-> "err",
                               msgs |-> <<<<"Minus not implemented for",
                                            "Nil">>>>],
                   x |-> XAfterLeft(lhs)]

\* C19: logical operators short-circuit.  For `l or r` with l truthy the
\* result is the value of l itself and r is not evaluated: an assignment
\* in r does not reach x and a failing r does not fail the expression.
\* For `l and r` with l falsy the result is the value False, not the value
\* of l, and r is not evaluated.  Otherwise the result is that of r,
\* evaluated after l: a read of x in r sees the assignment made by l, an
\* assignment in r takes effect, a failure of r is the failure of the
\* whole.  The effect of l itself is kept in every case.
C19_LogicalShortCircuit ==
    (pc = "evaluated" /\ input.kind = "logical") =>
        /\ result = LogicalExpected(input.operator, input.lhs,
                                    input.rhs).result
        /\ interp.scopes =
               <<[values |-> <<[key |-> EvalName.lexeme,
                                val |-> LogicalExpected(input.operator,
                                                        input.lhs,
                                                        input.rhs).x]>>,
                  enclosing |-> 0]>>

\* `1 or (x = 2)` has yielded 1 and left x at 0
C19_Witness ==
    /\ pc = "evaluated"
    /\ input.kind = "logical"
    /\ input.operator = "Or"
    /\ input.lhs = Literal(NumberValue(Num(1)))
    /\ input.rhs.type = "Assign"
    /\ result = [kind |-> "ok", value |-> NumberValue(Num(1))]
    /\ interp.scopes[1].values =
           <<[key |-> EvalName.lexeme, val |-> NumberValue(Num(0))]>>

\* `nil and -nil` has yielded False without failing
C19_WitnessAnd ==
    /\ pc = "evaluated"
    /\ input.kind = "logical"
    /\ input.operator = "And"
    /\ input.lhs = Literal(NilValue)
    /\ input.rhs = FailingExpr
    /\ result = [kind |-> "ok", value |-> FalseValue]

(***************************************************************************)
(* Claims about the scope chain, checked under SpecScope.                  *)
(***************************************************************************)
\* the scopes met from idx along the parent links, up to `steps` of them;
\* the walk ends at the parent 0 of the root
RECURSIVE ParentChain(_, _, _)
ParentChain(scopes, idx, steps) ==
    IF idx = 0 \/ steps = 0 THEN <<>>
    ELSE <<idx>> \o ParentChain(scopes, scopes[idx].enclosing, steps - 1)

\* from every live scope the parent links lead to the root, the one scope
\* without a parent, within as many steps as there are scopes and without
\* meeting a scope twice
ChainsReachRoot ==
    \A i \in 1..Len(interp.scopes) :
        \E chain \in {ParentChain(interp.scopes, i, Len(interp.scopes) + 1)} :
            /\ Len(chain) <= Len(interp.scopes)
            /\ \A k \in 1..Len(chain) : chain[k] \in 1..Len(interp.scopes)
            /\ \A k, l \in 1..Len(chain) : chain[k] = chain[l] => k = l
            /\ interp.scopes[chain[Len(chain)]].enclosing = 0
            /\ chain[Len(chain)] = 1

\* the current scope is a live scope
CurrentIsLive == interp.current \in 1..Len(interp.scopes)

\* a step leaves the parent link of every scope that stays as it is
ParentLinksKept ==
    \A i \in 1..Len(interp.scopes) :
        i <= Len(interp'.scopes) =>
            interp'.scopes[i].enclosing = interp.scopes[i].enclosing

\* C21: in every reachable state of evaluation the scope chain is acyclic.
\* The parent link of a scope is set when the scope is created (entering a
\* block) and no step changes it afterwards: not a declaration, not an
\* assignment, not a statement that fails, not leaving a block.  From any
\* live scope the parent links reach the root in finitely many steps
\* without visiting a scope twice.
C21_ScopeChainAcyclic ==
    /\ [](ChainsReachRoot /\ CurrentIsLive)
    /\ [][ParentLinksKept]_vars

\* three blocks deep, with x declared in the root and in the innermost
\* scope
C21_Witness ==
    /\ input.kind = "blocks"
    /\ Len(interp.scopes) = 4
    /\ interp.current = 4
    /\ interp.scopes[4].enclosing = 3
    /\ interp.scopes[1].values # <<>>
    /\ interp.scopes[4].values # <<>>

(***************************************************************************)
(* Claims about a run, checked under Spec.                                 *)
(***************************************************************************)
\* What the chunks read so far amount to, told statement by statement
\* without the interpreter: the value of x (-1 while x is not declared),
\* the numbers printed, and whether the run met a failure.
RefStep(text, ref) ==
    CASE ref.failed -> ref
      [] text = Str(<<"v", "a", "r", " ", "x", "=", "1", ";">>) ->
             [ref EXCEPT !.x = 1]
      [] text = Str(<<"x", "=", "x", "+", "1", ";">>) ->
             IF ref.x = 0 - 1 THEN [ref EXCEPT !.failed = TRUE]
             ELSE [ref EXCEPT !.x = @ + 1]
      [] text = Str(<<"p", "r", "i", "n", "t", " ", "x", ";">>) ->
             IF ref.x = 0 - 1 THEN [ref EXCEPT !.failed = TRUE]
             ELSE [ref EXCEPT !.out = Append(@, ref.x)]
      [] text = Str(<<"-", "n", "i", "l", ";">>) ->
             [ref EXCEPT !.failed = TRUE]

RECURSIVE RefRun(_, _)
RefRun(chunk, ref) ==
    IF chunk = <<>> THEN ref
    ELSE RefRun(Tail(chunk), RefStep(Head(chunk), ref))

RECURSIVE RefAll(_, _)
RefAll(parts, ref) ==
    IF parts = <<>> THEN ref
    ELSE RefAll(Tail(parts), RefRun(Head(parts), [ref EXCEPT !.failed = FALSE]))

RefNow == RefAll(input.parts, [x |-> 0 - 1, out |-> <<>>, failed |-> FALSE])

\* the texts the Print statements have written, in order
RECURSIVE Printed(_)
Printed(output) ==
    IF output = <<>> THEN <<>>
    ELSE IF Head(output).by = "print"
         THEN <<Head(output).text>> \o Printed(Tail(output))
         ELSE Printed(Tail(output))

\* C10: the first runtime failure of a run aborts it: no statement after the
\* failing one is executed and the failure is returned to the caller, and
\* every effect of the statements before it (the declaration and the
\* assignments of x, the lines printed) is kept and seen by the next run on
\* the same interpreter.  After each run the root scope and the printed
\* lines are those of the statements up to the first failure of each chunk.
C10_FirstFailureAborts ==
    (pc \in {"returned", "prompt", "exit"} /\ input.parts # <<>>) =>
        /\ (result.kind = "err") = RefNow.failed
        /\ result.kind \in {"ok", "err"}
        /\ interp.current = 1
        /\ Len(interp.scopes) = 1
        /\ interp.scopes[1].values =
               IF RefNow.x = 0 - 1 THEN <<>>
               ELSE <<[key |-> Str(<<"x">>),
                       val |-> NumberValue(Num(RefNow.x))]>>
        /\ Printed(interp.output) =
               [i \in 1..Len(RefNow.out) |-> NatToString(RefNow.out[i])]

\* a run declares x and fails; the next run prints x
C10_Witness ==
    /\ pc = "prompt"
    /\ runs = 2
    /\ input.parts =
           <<<<Str(<<"v", "a", "r", " ", "x", "=", "1", ";">>),
               Str(<<"-", "n", "i", "l", ";">>)>>,
             <<Str(<<"p", "r", "i", "n", "t", " ", "x", ";">>)>>>>
    /\ result.kind = "ok"
    /\ Printed(interp.output) = <<Str(<<"1">>)>>
    /\ Len(interp.output) = 6

\* the failures reported by the runs so far, in order
RECURSIVE Failures(_)
Failures(output) ==
    IF output = <<>> THEN <<>>
    ELSE IF Head(output).by = "error"
         THEN <<Head(output).msgs>> \o Failures(Tail(output))
         ELSE Failures(Tail(output))

\* one binding of a scope
Binding(name, value) == [key |-> name, val |-> value]

\* the runs of the script are over
ScriptDone(id) ==
    input.kind = "script" /\ input.id = id /\ input.rest = <<>>
        /\ pc \in {"prompt", "exit"}

\* what is printed, what fails and what the root scope holds at the end
Outcome(printed, failures, root) ==
    /\ Printed(interp.output) = printed
    /\ Failures(interp.output) = failures
    /\ interp.scopes[1].values = root

\* C11: when the execution of a Block ends, by success or by a failure of
\* one of its statements, the current scope is again the one that was
\* current before the block.  Between top-level statements the current
\* scope is the root and the root is the only live scope; after a failure
\* inside a block (nested or not) the next run declares into the root and
\* reads from the root, and no binding of the failed block is visible: the
\* name declared only in the failed block is undeclared in the next run.
C11_BlockRestoresScope ==
    /\ interp.current = 1
    /\ Len(interp.scopes) = 1
    /\ interp.scopes[1].enclosing = 0
    /\ ScriptDone("block_fails") =>
           Outcome(<<Str(<<"2">>)>>,
                   <<<<<<"Minus not implemented for", "Nil">>>>,
                     <<<<"Variable has not been declared", Str(<<"y">>)>>>>>>,
                   <<Binding(Str(<<"x">>), NumberValue(Num(2)))>>)
    /\ ScriptDone("inner_block_fails") =>
           Outcome(<<Str(<<"4">>)>>,
                   <<<<<<"Variable has not been declared", Str(<<"q">>)>>>>,
                     <<<<"Variable has not been declared", Str(<<"z">>)>>>>>>,
                   <<Binding(Str(<<"x">>), NumberValue(Num(1))),
                     Binding(Str(<<"y">>), NumberValue(Num(4)))>>)
    /\ ScriptDone("block_succeeds") =>
           Outcome(<<Str(<<"2">>), Str(<<"5">>), Str(<<"1">>)>>, <<>>,
                   <<Binding(Str(<<"x">>), NumberValue(Num(1))),
                     Binding(Str(<<"z">>), NumberValue(Num(5)))>>)

\* a block has failed and the next run has printed the x it declared in
\* the root and failed to read the y of the failed block
C11_Witness ==
    /\ ScriptDone("block_fails")
    /\ Printed(interp.output) = <<Str(<<"2">>)>>
    /\ Len(Failures(interp.output)) = 2
    /\ result.kind = "err"

\* the first i lines of the script have been run
LinesRun(id, i) ==
    input.kind = "script" /\ input.id = id /\ Len(input.parts) = i
        /\ pc \in {"prompt", "exit"}

\* C12: a `var` declaration inside a block writes only into the block's
\* own scope.  With x bound to n in the enclosing scope,
\* `var x = n; { var x = n+1; print x; } print x;` prints n+1 then n and
\* leaves x = n in the root (for n = 1: 2 then 1); in the next run a read
\* inside a block before the inner declaration sees the outer n, reads
\* after it see the inner value, a declaration one block deeper leaves the
\* middle binding alone, and the root binding still holds n at the end.
C12_DeclarationShadows ==
    /\ LinesRun("shadow", 1) =>
           Outcome(<<NatToString(input.n + 1), NatToString(input.n)>>, <<>>,
                   <<Binding(Str(<<"x">>), NumberValue(Num(input.n)))>>)
    /\ LinesRun("shadow", 2) =>
           Outcome(<<NatToString(input.n + 1), NatToString(input.n),
                     NatToString(input.n), Str(<<"7">>),
                     NatToString(input.n + 1)>>, <<>>,
                   <<Binding(Str(<<"x">>), NumberValue(Num(input.n)))>>)

\* `var x = 1; { var x = 2; print x; } print x;` has printed 2 then 1
C12_Witness ==
    /\ LinesRun("shadow", 1)
    /\ input.n = 1
    /\ result.kind = "ok"
    /\ Printed(interp.output) = <<Str(<<"2">>), Str(<<"1">>)>>

\* the failure of a read of an undeclared name
NotDeclared(name) == <<<<"Variable has not been declared", name>>>>

\* C13: a name declared only inside a block is not visible after the
\* block.  `{ var x = 1; } print x;` prints nothing and fails with the
\* variable-not-declared error for x, and so does `print x;` in the next
\* run; a name of an inner block is readable inside it (x is printed from
\* the inner block) but the read of z after its block fails, inside the
\* enclosing block, and the read of x after the outer block fails too,
\* while the root's y stays readable.  No such name is left in the root.
C13_BlockNameNotVisibleAfter ==
    /\ LinesRun("escape", 1) =>
           /\ Outcome(<<>>, <<NotDeclared(Str(<<"x">>))>>, <<>>)
           /\ result.kind = "err"
    /\ LinesRun("escape", 2) =>
           /\ Outcome(<<>>, <<NotDeclared(Str(<<"x">>)), NotDeclared(Str(<<"x">>))>>,
                      <<>>)
           /\ result.kind = "err"
    /\ LinesRun("escape_nested", 1) =>
           /\ Outcome(<<Str(<<"1">>)>>, <<NotDeclared(Str(<<"z">>))>>,
                      <<Binding(Str(<<"y">>), NumberValue(Num(1)))>>)
           /\ result.kind = "err"
    /\ LinesRun("escape_nested", 2) =>
           /\ Outcome(<<Str(<<"1">>), Str(<<"1">>)>>,
                      <<NotDeclared(Str(<<"z">>)), NotDeclared(Str(<<"x">>))>>,
                      <<Binding(Str(<<"y">>), NumberValue(Num(1)))>>)
           /\ result.kind = "err"

\* `{ var x = 1; } print x;` has failed on the read of x
C13_Witness ==
    /\ LinesRun("escape", 1)
    /\ result.kind = "err"
    /\ Failures(interp.output) = <<NotDeclared(Str(<<"x">>))>>
    /\ Printed(interp.output) = <<>>

\* the lines printed by a loop counting from 0 up to n - 1
Counting(n) == [k \in 1..n |-> NatToString(k - 1)]

\* C14: `for (var i = 0; i < N; i = i + 1) print i;` prints exactly
\* 0, 1, ..., N-1 in increasing order and then terminates successfully
\* (nothing for N = 0; 0, 1, 2 for N = 3), and the loop variable i is not
\* visible after the loop: no binding is left in the root, and a
\* `print i;` after the loop, in the same run, fails with the
\* variable-not-declared error for i.
C14_ForCountsAndEnds ==
    /\ (input.kind = "script" /\ input.id = "for") => pc # "diverged"
    /\ LinesRun("for", 1) =>
           /\ Outcome(Counting(input.n), <<>>, <<>>)
           /\ result.kind = "ok"
    /\ LinesRun("for", 2) =>
           /\ Outcome(Counting(input.n) \o Counting(input.n),
                      <<NotDeclared(Str(<<"i">>))>>, <<>>)
           /\ result.kind = "err"

\* the loop up to 3 has printed 0, 1, 2 and ended
C14_Witness ==
    /\ LinesRun("for", 1)
    /\ input.n = 3
    /\ result.kind = "ok"
    /\ Printed(interp.output) = <<Str(<<"0">>), Str(<<"1">>), Str(<<"2">>)>>

\* the failure of an assignment to an undeclared name
AssignNotDeclared(name) == <<<<"Variable has not been declared.", name>>>>

\* C15: an assignment overwrites the binding of the name in the nearest
\* scope that defines it, changes nothing else and yields the assigned
\* value; without a binding it fails and creates none.
\* `var x = 10; x = x + n; print x;` prints 10 + n (15 for n = 5) and
\* `print x = n;` prints n, the value then read from x.  From two blocks
\* deep, `x = 4` writes the x of the middle block (read there as 4 after
\* the inner block) and leaves the root's x = 1, while `y = 5` writes the
\* root's y.  `z = 3` with no z in the chain fails, the rest of the block
\* is not run, and z is undeclared afterwards: the root holds x only.
C15_AssignNearestBinding ==
    /\ LinesRun("assign", 1) =>
           /\ Outcome(<<NatToString(10 + input.n)>>, <<>>,
                      <<Binding(Str(<<"x">>), NumberValue(Num(10 + input.n)))>>)
           /\ result.kind = "ok"
    /\ LinesRun("assign", 2) =>
           Outcome(<<NatToString(10 + input.n), NatToString(input.n),
                     NatToString(input.n)>>, <<>>,
                   <<Binding(Str(<<"x">>), NumberValue(Num(input.n)))>>)
    /\ LinesRun("assign_nearest", 1) =>
           Outcome(<<Str(<<"4">>), Str(<<"4">>)>>, <<>>,
                   <<Binding(Str(<<"x">>), NumberValue(Num(1))),
                     Binding(Str(<<"y">>), NumberValue(Num(5)))>>)
    /\ LinesRun("assign_nearest", 2) =>
           Outcome(<<Str(<<"4">>), Str(<<"4">>), Str(<<"1">>), Str(<<"5">>)>>, <<>>,
                   <<Binding(Str(<<"x">>), NumberValue(Num(1))),
                     Binding(Str(<<"y">>), NumberValue(Num(5)))>>)
    /\ LinesRun("assign_undeclared", 1) =>
           /\ Outcome(<<>>, <<AssignNotDeclared(Str(<<"z">>))>>,
                      <<Binding(Str(<<"x">>), NumberValue(Num(1)))>>)
           /\ result.kind = "err"
    /\ LinesRun("assign_undeclared", 2) =>
           Outcome(<<Str(<<"1">>)>>,
                   <<AssignNotDeclared(Str(<<"z">>)), NotDeclared(Str(<<"z">>))>>,
                   <<Binding(Str(<<"x">>), NumberValue(Num(1)))>>)

\* `var x = 10; x = x + 5; print x;` has printed 15
C15_Witness ==
    /\ LinesRun("assign", 1)
    /\ input.n = 5
    /\ result.kind = "ok"
    /\ Printed(interp.output) = <<Str(<<"1", "5">>)>>

\* the chunk with an error is not executed: run returns Err, execution
\* never starts, nothing is printed and the root scope stays empty, so
\* that the read of x in the next run fails
ErrorChunkNotExecuted ==
    /\ pc # "panicked"
    /\ Printed(interp.output) = <<>>
    /\ interp.scopes = NewInterpreter.scopes
    /\ interp.current = 1
    /\ Len(input.parts) = 1 => (pc # "interpret" /\ ip = 0)
    /\ LinesRun("error_chunk", 1) =>
           /\ result.kind = "err"
           /\ Len(Failures(interp.output)) = 1
    /\ LinesRun("error_chunk", 2) =>
           /\ Len(Failures(interp.output)) = 2
           /\ Failures(interp.output)[2] = NotDeclared(Str(<<"x">>))

\* C22: execution starts only after the whole chunk has scanned and parsed
\* without error.  When the chunk contains a lexical error (an
\* unrecognized character, ASCII or not, an unterminated string) or a
\* syntax error, before, after or between well-formed statements, run
\* returns Err and no statement of the chunk is executed: nothing is
\* printed and the interpreter state is unchanged, so x, declared by the
\* well-formed statements of the chunk, is undeclared in the next run.
C22_ErrorChunkNotExecuted ==
    (input.kind = "script" /\ input.id = "error_chunk") =>
        ErrorChunkNotExecuted

\* the same for the chunks whose error is an ASCII character outside the
\* grammar, an unterminated string or a syntax error other than a `%`
\* where an expression must start
C22_ReportedErrorChunkNotExecuted ==
    (input.kind = "script" /\ input.id = "error_chunk" /\ input.n = 0) =>
        ErrorChunkNotExecuted

\* `var x=1;print x;1+;var x=1;print x;` has returned Err with nothing
\* printed
C22_ReportedWitness ==
    /\ LinesRun("error_chunk", 1)
    /\ input.parts[1][1] =
           Str(<<"v", "a", "r", " ", "x", "=", "1", ";", "p", "r", "i", "n",
                 "t", " ", "x", ";", "1", "+", ";", "v", "a", "r", " ", "x",
                 "=", "1", ";", "p", "r", "i", "n", "t", " ", "x", ";">>)
    /\ result.kind = "err"
    /\ Printed(interp.output) = <<>>

(***************************************************************************)
(* Claims about the termination of Parser::parse, checked under SpecParse. *)
(***************************************************************************)
\* the token vector ends with its Eof token, as every vector scan_tokens
\* returns does
TokensEndWithEof ==
    /\ parser.tokens # <<>>
    /\ parser.tokens[Len(parser.tokens)].token_type = "Eof"

\* the 0-based index of the Eof token
EofIndex == Len(parser.tokens) - 1

\* an iteration of the loop of parse that came back: its declaration parsed
\* (one more statement) or failed and was followed by syncronize (one more
\* error)
IterationDone ==
    /\ pc = "parse"
    /\ pc' = "parse"
    /\ \/ Len(stmts') = Len(stmts) + 1
       \/ Len(parse_errors') = Len(parse_errors) + 1

CursorMovesOn ==
    (TokensEndWithEof /\ IterationDone) => parser'.current > parser.current

CursorWithinTokens == TokensEndWithEof => parser.current \in 0..EofIndex

\* the iterations that came back, counted by what each of them left behind:
\* there are no more of them than tokens before the cursor
IterationsWithinCursor ==
    TokensEndWithEof => Len(stmts) + Len(parse_errors) <= parser.current

\* C23: Parser::parse terminates on every token sequence that ends with
\* Eof: each iteration of its top-level loop, whether the declaration
\* parsed or failed and was followed by syncronize, leaves the cursor at
\* least one token further than where the iteration began, and the cursor
\* never moves past the Eof token, so the loop has no more iterations than
\* there are tokens before Eof.
C23_ParseTerminates ==
    /\ [][CursorMovesOn]_vars
    /\ [](CursorWithinTokens /\ IterationsWithinCursor)

\* `1;)` has been parsed to its Eof: an iteration that parsed `1;`, then one
\* that failed on `)` without consuming it and was followed by syncronize
C23_Witness ==
    /\ input.kind = "words"
    /\ input.parts = <<Str(<<"1">>), Str(<<";">>), Str(<<")">>)>>
    /\ pc = "parsed"
    /\ Len(stmts) = 1
    /\ Len(parse_errors) = 1
    /\ parser.current = EofIndex
    /\ EofIndex = 3

=============================================================================
